---- MODULE Spec2Model ----
(***************************************************************************)
(* The market-impact scoring engine of app.py (score_article and its       *)
(* helper predicates), the news fetcher (fetch_news, fetch_all_news) and   *)
(* the script (publisher filter, headline index, News tab and Trending     *)
(* tab), one run and a session of reruns, as state machines.               *)
(* A Python str is modelled as a                                           *)
(* sequence of one-character strings, so that lower(), strip(), substring  *)
(* containment and the regular expressions are computed character by       *)
(* character, as the interpreter computes them.                            *)
(***************************************************************************)
EXTENDS Integers, Sequences, FiniteSets, TLC

VARIABLES
  WEIGHTS,         \* the module-level dict WEIGHTS (app.py:291)
  args,            \* the arguments of the next score_article call
  first,           \* the first score_article call of the run and what it returned
  last,            \* the latest score_article call and what it returned
  threshold,       \* the News tab slider (app.py:627)
  only_impact,     \* the News tab checkbox (app.py:625)
  saved_articles,  \* st.session_state["saved_articles"] (app.py:428)
  raw_news_results, \* what fetch_all_news returned last (app.py:435)
  pc,              \* where the run of fetch_all_news or of the script stands
  stocks,          \* the list fetch_all_news was called with (app.py:259)
  futures,         \* the futures of the fetch_news workers (app.py:262)
  results,         \* the list fetch_all_news builds (app.py:260)
  fetched,         \* what fetch_news returns for each stock of fo_stocks
  news_results,    \* raw_news_results without the articles that name no publisher (app.py:438)
  headline_map,    \* headline key -> publisher names (app.py:461)
  all_results,     \* what fetch_all_news returned in the Trending tab (app.py:734)
  cursor,          \* the record and the article the running loop stands at
  scored_list,     \* the scored articles of the stock being shown (app.py:640)
  shown,           \* what the News tab has rendered, stock by stock
  lookup,          \* the headline key computed last and what it was used for
  totals,          \* displayed_total and filtered_out_total (app.py:634-635)
  impactful_count, \* the running count of the Trending tab (app.py:741)
  counts,          \* the counts of the Trending tab (app.py:737)
  clicked,         \* the key of the button whose click started this run, if any (app.py:700)
  runs             \* how many runs of the script the session has started

(* the state of a fetch_all_news call *)
fetchVars == <<stocks, futures, results>>

(* the state of the scoring engine and of the News tab controls *)
scoreVars == <<WEIGHTS, args, first, last, threshold, only_impact, saved_articles>>

(* the state of a run of the script below the fetch *)
pageVars == <<fetched, news_results, headline_map, all_results, cursor,
              scored_list, shown, lookup, totals, impactful_count, counts,
              clicked, runs>>

vars == <<WEIGHTS, args, first, last, threshold, only_impact, saved_articles,
          raw_news_results, pc, fetchVars, pageVars>>

(* no fetch_all_news call is under way *)
FetchIdle == stocks = <<>> /\ futures = <<>> /\ results = <<>>

(* no button was clicked *)
NoClick == <<>>

(* no key has been computed yet *)
NoLookup == [site |-> "", stock |-> <<>>, title |-> <<>>, key |-> <<>>,
             publishers |-> <<>>]

(* the script has not got past the fetch *)
PageIdle ==
  /\ fetched = <<>>
  /\ news_results = <<>>
  /\ headline_map = <<>>
  /\ all_results = <<>>
  /\ cursor = <<0, 0>>
  /\ scored_list = <<>>
  /\ shown = <<>>
  /\ lookup = NoLookup
  /\ totals = [displayed_total |-> 0, filtered_out_total |-> 0]
  /\ impactful_count = 0
  /\ counts = <<>>
  /\ clicked = NoClick
  /\ runs = 0

----------------------------------------------------------------------------
(* Characters and the str methods the engine uses.                         *)

UpperCase == <<"A", "B", "C", "D", "E", "F", "G", "H", "I", "J", "K", "L", "M",
               "N", "O", "P", "Q", "R", "S", "T", "U", "V", "W", "X", "Y", "Z">>

LowerCase == <<"a", "b", "c", "d", "e", "f", "g", "h", "i", "j", "k", "l", "m",
               "n", "o", "p", "q", "r", "s", "t", "u", "v", "w", "x", "y", "z">>

Range(s) == {s[i] : i \in DOMAIN s}

UpperSet == Range(UpperCase)

Letters == UpperSet \cup Range(LowerCase)

Digits == {"0", "1", "2", "3", "4", "5", "6", "7", "8", "9"}

(* \s of the re module, restricted to the characters of the model *)
Whitespace == {" ", "\t", "\n"}

(* \w of the re module: letters, digits and the underscore *)
WordChars == Letters \cup Digits \cup {"_"}

(* the lower-case letter of each upper-case letter *)
LowerOf == [c \in UpperSet |-> LowerCase[CHOOSE i \in DOMAIN UpperCase : UpperCase[i] = c]]

(* str.lower() on one character *)
LowerChar(c) == IF c \in UpperSet THEN LowerOf[c] ELSE c

(* str.lower() *)
lower(s) == [i \in DOMAIN s |-> LowerChar(s[i])]

(* str.strip() *)
strip(s) ==
  LET keep == {i \in DOMAIN s : s[i] \notin Whitespace}
  IN  IF keep = {} THEN <<>>
      ELSE SubSeq(s, CHOOSE i \in keep : \A j \in keep : i <= j,
                     CHOOSE i \in keep : \A j \in keep : i >= j)

(* the Python expression  k in t  on two strs *)
IsSubstr(k, t) ==
  \E i \in 0..(Len(t) - Len(k)) : \A j \in 1..Len(k) : t[i + j] = k[j]

----------------------------------------------------------------------------
(* Python values: None, a str, an int (held as its decimal digits) or a    *)
(* list of values.                                                         *)

None == [t |-> "None", s |-> <<>>]

Str(s) == [t |-> "str", s |-> s]

PyInt(digits) == [t |-> "int", s |-> digits]

List(items) == [t |-> "list", s |-> items]

(* bool(v): None, "" and 0 are falsy *)
Truthy(v) ==
  CASE v.t = "None" -> FALSE
    [] v.t = "str"  -> v.s # <<>>
    [] v.t = "int"  -> v.s # <<"0">>
    [] v.t = "list" -> v.s # <<>>

(* format(v, "") as an f-string field: None prints as "None" *)
Format(v) == IF v.t = "None" THEN <<"N", "o", "n", "e">> ELSE v.s

----------------------------------------------------------------------------
(* Scoring configuration, app.py:291-337.                                  *)

WEIGHTS_init ==
  [ earnings_guidance |-> 30,
    MA_JV |-> 25,
    management_change |-> 20,
    buyback_dividend |-> 20,
    contract_deal |-> 25,
    block_insider |-> 25,
    policy_regulation |-> 20,
    analyst_move |-> 15,
    numeric_mentioned |-> 10,
    trusted_source |-> 15,
    speculative_penalty |-> -15,
    low_quality_penalty |-> -10,
    max_corroboration_bonus |-> 20 ]

(* HIGH_PRIORITY_KEYWORDS["earnings"]: earnings, quarter, q1, q2, q3, q4, revenue, profit, loss, guidance, outlook, beat, miss, results *)
KW_earnings ==
  << <<"e", "a", "r", "n", "i", "n", "g", "s">>,
     <<"q", "u", "a", "r", "t", "e", "r">>,
     <<"q", "1">>,
     <<"q", "2">>,
     <<"q", "3">>,
     <<"q", "4">>,
     <<"r", "e", "v", "e", "n", "u", "e">>,
     <<"p", "r", "o", "f", "i", "t">>,
     <<"l", "o", "s", "s">>,
     <<"g", "u", "i", "d", "a", "n", "c", "e">>,
     <<"o", "u", "t", "l", "o", "o", "k">>,
     <<"b", "e", "a", "t">>,
     <<"m", "i", "s", "s">>,
     <<"r", "e", "s", "u", "l", "t", "s">> >>

(* HIGH_PRIORITY_KEYWORDS["MA"]: acquires, acquisition, merger, demerger, spin-off, spin off, joint venture, jv *)
KW_MA ==
  << <<"a", "c", "q", "u", "i", "r", "e", "s">>,
     <<"a", "c", "q", "u", "i", "s", "i", "t", "i", "o", "n">>,
     <<"m", "e", "r", "g", "e", "r">>,
     <<"d", "e", "m", "e", "r", "g", "e", "r">>,
     <<"s", "p", "i", "n", "-", "o", "f", "f">>,
     <<"s", "p", "i", "n", " ", "o", "f", "f">>,
     <<"j", "o", "i", "n", "t", " ", "v", "e", "n", "t", "u", "r", "e">>,
     <<"j", "v">> >>

(* HIGH_PRIORITY_KEYWORDS["management"]: appoint, resign, ceo, cfo, chairman, board, director, promoter, coo, md *)
KW_management ==
  << <<"a", "p", "p", "o", "i", "n", "t">>,
     <<"r", "e", "s", "i", "g", "n">>,
     <<"c", "e", "o">>,
     <<"c", "f", "o">>,
     <<"c", "h", "a", "i", "r", "m", "a", "n">>,
     <<"b", "o", "a", "r", "d">>,
     <<"d", "i", "r", "e", "c", "t", "o", "r">>,
     <<"p", "r", "o", "m", "o", "t", "e", "r">>,
     <<"c", "o", "o">>,
     <<"m", "d">> >>

(* HIGH_PRIORITY_KEYWORDS["corp_action"]: buyback, dividend, split, bonus issue, bonus, rights issue, rights, share pledge, pledge *)
KW_corp_action ==
  << <<"b", "u", "y", "b", "a", "c", "k">>,
     <<"d", "i", "v", "i", "d", "e", "n", "d">>,
     <<"s", "p", "l", "i", "t">>,
     <<"b", "o", "n", "u", "s", " ", "i", "s", "s", "u", "e">>,
     <<"b", "o", "n", "u", "s">>,
     <<"r", "i", "g", "h", "t", "s", " ", "i", "s", "s", "u", "e">>,
     <<"r", "i", "g", "h", "t", "s">>,
     <<"s", "h", "a", "r", "e", " ", "p", "l", "e", "d", "g", "e">>,
     <<"p", "l", "e", "d", "g", "e">> >>

(* HIGH_PRIORITY_KEYWORDS["contract"]: contract, order, tender, deal, agreement, licence, license, wins order *)
KW_contract ==
  << <<"c", "o", "n", "t", "r", "a", "c", "t">>,
     <<"o", "r", "d", "e", "r">>,
     <<"t", "e", "n", "d", "e", "r">>,
     <<"d", "e", "a", "l">>,
     <<"a", "g", "r", "e", "e", "m", "e", "n", "t">>,
     <<"l", "i", "c", "e", "n", "c", "e">>,
     <<"l", "i", "c", "e", "n", "s", "e">>,
     <<"w", "i", "n", "s", " ", "o", "r", "d", "e", "r">> >>

(* HIGH_PRIORITY_KEYWORDS["regulatory"]: sebi, investigation, fraud, lawsuit, penalty, fine, regulation, ban, policy, pli, subsidy, tariff *)
KW_regulatory ==
  << <<"s", "e", "b", "i">>,
     <<"i", "n", "v", "e", "s", "t", "i", "g", "a", "t", "i", "o", "n">>,
     <<"f", "r", "a", "u", "d">>,
     <<"l", "a", "w", "s", "u", "i", "t">>,
     <<"p", "e", "n", "a", "l", "t", "y">>,
     <<"f", "i", "n", "e">>,
     <<"r", "e", "g", "u", "l", "a", "t", "i", "o", "n">>,
     <<"b", "a", "n">>,
     <<"p", "o", "l", "i", "c", "y">>,
     <<"p", "l", "i">>,
     <<"s", "u", "b", "s", "i", "d", "y">>,
     <<"t", "a", "r", "i", "f", "f">> >>

(* HIGH_PRIORITY_KEYWORDS["analyst"]: upgrade, downgrade, target, recommendation, brokerage, analyst *)
KW_analyst ==
  << <<"u", "p", "g", "r", "a", "d", "e">>,
     <<"d", "o", "w", "n", "g", "r", "a", "d", "e">>,
     <<"t", "a", "r", "g", "e", "t">>,
     <<"r", "e", "c", "o", "m", "m", "e", "n", "d", "a", "t", "i", "o", "n">>,
     <<"b", "r", "o", "k", "e", "r", "a", "g", "e">>,
     <<"a", "n", "a", "l", "y", "s", "t">> >>

(* HIGH_PRIORITY_KEYWORDS["block"]: block deal, bulk deal, blocktrade, block-trade, insider, promoter buy, promoter selling, promoter sell *)
KW_block ==
  << <<"b", "l", "o", "c", "k", " ", "d", "e", "a", "l">>,
     <<"b", "u", "l", "k", " ", "d", "e", "a", "l">>,
     <<"b", "l", "o", "c", "k", "t", "r", "a", "d", "e">>,
     <<"b", "l", "o", "c", "k", "-", "t", "r", "a", "d", "e">>,
     <<"i", "n", "s", "i", "d", "e", "r">>,
     <<"p", "r", "o", "m", "o", "t", "e", "r", " ", "b", "u", "y">>,
     <<"p", "r", "o", "m", "o", "t", "e", "r", " ", "s", "e", "l", "l", "i", "n", "g">>,
     <<"p", "r", "o", "m", "o", "t", "e", "r", " ", "s", "e", "l", "l">> >>

HIGH_PRIORITY_KEYWORDS ==
  [ earnings |-> KW_earnings, MA |-> KW_MA, management |-> KW_management,
    corp_action |-> KW_corp_action, contract |-> KW_contract,
    regulatory |-> KW_regulatory, analyst |-> KW_analyst, block |-> KW_block ]

(* reuters, bloomberg, economic times, economictimes, livemint, mint, business standard, business-standard, cnbc, ft, financial times, press release, nse, bse *)
TRUSTED_SOURCES ==
  { <<"r", "e", "u", "t", "e", "r", "s">>,
    <<"b", "l", "o", "o", "m", "b", "e", "r", "g">>,
    <<"e", "c", "o", "n", "o", "m", "i", "c", " ", "t", "i", "m", "e", "s">>,
    <<"e", "c", "o", "n", "o", "m", "i", "c", "t", "i", "m", "e", "s">>,
    <<"l", "i", "v", "e", "m", "i", "n", "t">>,
    <<"m", "i", "n", "t">>,
    <<"b", "u", "s", "i", "n", "e", "s", "s", " ", "s", "t", "a", "n", "d", "a", "r", "d">>,
    <<"b", "u", "s", "i", "n", "e", "s", "s", "-", "s", "t", "a", "n", "d", "a", "r", "d">>,
    <<"c", "n", "b", "c">>,
    <<"f", "t">>,
    <<"f", "i", "n", "a", "n", "c", "i", "a", "l", " ", "t", "i", "m", "e", "s">>,
    <<"p", "r", "e", "s", "s", " ", "r", "e", "l", "e", "a", "s", "e">>,
    <<"n", "s", "e">>,
    <<"b", "s", "e">> }

(* blog, medium, wordpress, forum, reddit, quora *)
LOW_QUALITY_SOURCES ==
  { <<"b", "l", "o", "g">>,
    <<"m", "e", "d", "i", "u", "m">>,
    <<"w", "o", "r", "d", "p", "r", "e", "s", "s">>,
    <<"f", "o", "r", "u", "m">>,
    <<"r", "e", "d", "d", "i", "t">>,
    <<"q", "u", "o", "r", "a">> }

(* may, might, could, rumour, rumor, reportedly, alleged, possible, speculat *)
SPECULATIVE_WORDS ==
  << <<"m", "a", "y">>,
     <<"m", "i", "g", "h", "t">>,
     <<"c", "o", "u", "l", "d">>,
     <<"r", "u", "m", "o", "u", "r">>,
     <<"r", "u", "m", "o", "r">>,
     <<"r", "e", "p", "o", "r", "t", "e", "d", "l", "y">>,
     <<"a", "l", "l", "e", "g", "e", "d">>,
     <<"p", "o", "s", "s", "i", "b", "l", "e">>,
     <<"s", "p", "e", "c", "u", "l", "a", "t">> >>

(* NUMERIC_PATTERN, first alternative: the character class [%₹$£€] *)
NUMERIC_SYMBOLS == {"%", "₹", "$", "£", "€"}

(* NUMERIC_PATTERN, the unit alternatives in the order the pattern lists them:
   crore|lakh|billion|bn|mn|m|₹|rs\.|rs|rupee|ton|tons|mw|MW|GW *)
NUMERIC_UNITS ==
  << <<"c", "r", "o", "r", "e">>,
     <<"l", "a", "k", "h">>,
     <<"b", "i", "l", "l", "i", "o", "n">>,
     <<"b", "n">>,
     <<"m", "n">>,
     <<"m">>,
     <<"₹">>,
     <<"r", "s", ".">>,
     <<"r", "s">>,
     <<"r", "u", "p", "e", "e">>,
     <<"t", "o", "n">>,
     <<"t", "o", "n", "s">>,
     <<"m", "w">>,
     <<"M", "W">>,
     <<"G", "W">> >>

----------------------------------------------------------------------------
(* numeric_re.search: a position p in 0..Len(t) lies between t[p] and      *)
(* t[p+1].  re.search succeeds iff some start and some choice of the       *)
(* quantifiers matches, which is what the existentials below say.          *)

IsWordAt(t, i) == i \in 1..Len(t) /\ t[i] \in WordChars

(* \b at position p *)
WordBoundary(t, p) == IsWordAt(t, p) # IsWordAt(t, p + 1)

AllIn(t, a, b, S) == \A i \in a..b : i \in 1..Len(t) /\ t[i] \in S

RECURSIVE ThousandsEnds(_, _)
(* the positions where (?:,\d{3})* can end when it starts at p *)
ThousandsEnds(t, p) ==
  {p} \cup (IF p + 4 <= Len(t) /\ t[p + 1] = "," /\ AllIn(t, p + 2, p + 4, Digits)
              THEN ThousandsEnds(t, p + 4) ELSE {})

(* the positions where (?:\.\d+)? can end when it starts at p *)
FractionEnds(t, p) ==
  {p} \cup (IF p + 2 <= Len(t) /\ t[p + 1] = "."
              THEN {q \in (p + 2)..Len(t) : AllIn(t, p + 2, q, Digits)} ELSE {})

(* the positions where \s* can end when it starts at p *)
SpaceEnds(t, p) == {q \in p..Len(t) : AllIn(t, p + 1, q, Whitespace)}

(* one of the units matches at position p, ignoring case (re.IGNORECASE) *)
UnitAt(t, p) ==
  \E n \in DOMAIN NUMERIC_UNITS :
    LET u == NUMERIC_UNITS[n]
    IN  /\ p + Len(u) <= Len(t)
        /\ \A j \in 1..Len(u) : LowerChar(t[p + j]) = LowerChar(u[j])

(* \b\d{1,3}(?:,\d{3})*(?:\.\d+)?\b\s*(?:unit) matches somewhere in t *)
QuantityMatch(t) ==
  \E p \in 0..(Len(t) - 1) :
    /\ t[p + 1] \in Digits
    /\ WordBoundary(t, p)
    /\ \E a \in (p + 1)..(p + 3) :
         /\ AllIn(t, p + 1, a, Digits)
         /\ \E b \in ThousandsEnds(t, a) :
              \E c \in FractionEnds(t, b) :
                /\ WordBoundary(t, c)
                /\ \E e \in SpaceEnds(t, c) : UnitAt(t, e)

----------------------------------------------------------------------------
(* Helper predicates, app.py:340-364.  norm_text calls .strip() on its     *)
(* argument when the argument is truthy, which raises AttributeError on a  *)
(* value that is not a str.                                                *)

norm_text_raises(s) == Truthy(s) /\ s.t # "str"

norm_text(s) == lower(strip(IF Truthy(s) THEN s.s ELSE <<>>))

(* the containment test with its operands swapped:  text in k  *)
contains_any_swapped(text, keywords) ==
  LET t == norm_text(text)
  IN  \E i \in DOMAIN keywords : IsSubstr(t, keywords[i])

contains_any(text, keywords) ==
  LET t == norm_text(text)
  IN  \E i \in DOMAIN keywords : IsSubstr(keywords[i], t)

is_trusted_raises(publisher) == Truthy(publisher) /\ norm_text_raises(publisher)

is_trusted(publisher) ==
  IF ~Truthy(publisher) THEN FALSE
  ELSE LET p == norm_text(publisher)
       IN  \E ts \in TRUSTED_SOURCES : IsSubstr(ts, p)

(* the publisher compared with the table entries, not searched for them *)
is_low_quality_exact(publisher) ==
  IF ~Truthy(publisher) THEN FALSE
  ELSE norm_text(publisher) \in LOW_QUALITY_SOURCES

is_low_quality(publisher) ==
  IF ~Truthy(publisher) THEN FALSE
  ELSE LET p == norm_text(publisher)
       IN  \E lq \in LOW_QUALITY_SOURCES : IsSubstr(lq, p)

(* the pattern without its first alternative [%₹$£€] *)
has_numeric_units_only(text) ==
  LET t == IF Truthy(text) THEN text.s ELSE <<>>
  IN  QuantityMatch(t)

has_numeric(text) ==
  LET t == IF Truthy(text) THEN text.s ELSE <<>>
  IN  \/ \E i \in DOMAIN t : t[i] \in NUMERIC_SYMBOLS
      \/ QuantityMatch(t)

----------------------------------------------------------------------------
(* score_article, app.py:367-422.                                          *)

Min(a, b) == IF a <= b THEN a ELSE b

Max(a, b) == IF a >= b THEN a ELSE b

(* reasons kept from the call before, as a mutable default argument would *)
Start_keeps_reasons == [raw |-> 0, reasons |-> IF last.made THEN last.ret.reasons ELSE <<>>]

(* raw = 0; reasons = [] *)
Start == [raw |-> 0, reasons |-> <<>>]

(* an elif chain: only the first predicate that matches is counted *)
Accumulate_elif(acc, matched, weight, label) ==
  IF matched /\ acc.reasons = <<>>
    THEN [raw |-> acc.raw + weight, reasons |-> Append(acc.reasons, label)]
    ELSE acc

(* reasons.insert(0, label) in place of reasons.append(label) *)
Accumulate_insert(acc, matched, weight, label) ==
  IF matched
    THEN [raw |-> acc.raw + weight, reasons |-> <<label>> \o acc.reasons]
    ELSE acc

(* one  if <predicate>: raw += <weight>; reasons.append(<label>)  block *)
Accumulate(acc, matched, weight, label) ==
  IF matched
    THEN [raw |-> acc.raw + weight, reasons |-> Append(acc.reasons, label)]
    ELSE acc

(* the weight added once for every keyword of the category found in txt *)
Category_per_keyword(acc, txt, keywords, weight, label) ==
  LET found == {i \in DOMAIN keywords : IsSubstr(keywords[i], norm_text(txt))}
  IN  IF found # {}
        THEN [raw |-> acc.raw + weight * Cardinality(found),
              reasons |-> Append(acc.reasons, label)]
        ELSE acc

(* one  if contains_any(txt, HIGH_PRIORITY_KEYWORDS[...]):  block *)
Category(acc, txt, keywords, weight, label) ==
  Accumulate(acc, contains_any(txt, keywords), weight, label)

(* the count taken over the list itself, without set() *)
trusted_count_list(corroboration_sources) ==
  Cardinality({i \in DOMAIN corroboration_sources.s :
                 Truthy(corroboration_sources.s[i])
                   /\ is_trusted(corroboration_sources.s[i])})

(* sum(1 for s in set(corroboration_sources) if s and is_trusted(s)) *)
trusted_count(corroboration_sources) ==
  Cardinality({s \in Range(corroboration_sources.s) : Truthy(s) /\ is_trusted(s)})

(* is_trusted(s) raises inside the generator of line 415 *)
trusted_count_raises(corroboration_sources) ==
  \E s \in Range(corroboration_sources.s) : Truthy(s) /\ is_trusted_raises(s)

(* the bonus granted from the third trusted name on:  trusted_count > 2  *)
corroboration_bonus_late(corroboration_sources) ==
  IF Truthy(corroboration_sources)
    THEN LET count == trusted_count(corroboration_sources)
         IN  IF count > 2
               THEN Min(WEIGHTS.max_corroboration_bonus, 5 * (count - 1))
               ELSE 0
    ELSE 0

(* corroboration_bonus after lines 413-417 *)
corroboration_bonus(corroboration_sources) ==
  IF Truthy(corroboration_sources)
    THEN LET count == trusted_count(corroboration_sources)
         IN  IF count > 1
               THEN Min(WEIGHTS.max_corroboration_bonus, 5 * (count - 1))
               ELSE 0
    ELSE 0

(* min(100, raw): the floor forgotten *)
clamp_no_floor(raw) == Min(100, raw)

(* max(0, raw): the ceiling forgotten *)
clamp_no_ceiling(raw) == Max(0, raw)

(* max(0, min(100, raw)) *)
clamp(raw) == Max(0, Min(100, raw))

(* what a call that raised leaves its caller with *)
Raised(exception) == [exc |-> exception, score |-> 0, reasons |-> <<>>]

Returned(score, reasons) == [exc |-> "", score |-> score, reasons |-> reasons]

score_article(title, desc, publisher, corroboration_sources) ==
  LET txt == Str(lower(Format(title) \o <<" ">> \o Format(desc)))
      a1  == Category(Start, txt, HIGH_PRIORITY_KEYWORDS.earnings,
                      WEIGHTS.earnings_guidance, "Earnings/Guidance")
      a2  == Category(a1, txt, HIGH_PRIORITY_KEYWORDS.MA,
                      WEIGHTS.MA_JV, "M&A/JV")
      a3  == Category(a2, txt, HIGH_PRIORITY_KEYWORDS.management,
                      WEIGHTS.management_change, "Management/Govt")
      a4  == Category(a3, txt, HIGH_PRIORITY_KEYWORDS.corp_action,
                      WEIGHTS.buyback_dividend, "Corporate Action")
      a5  == Category(a4, txt, HIGH_PRIORITY_KEYWORDS.contract,
                      WEIGHTS.contract_deal, "Contract/Order")
      a6  == Category(a5, txt, HIGH_PRIORITY_KEYWORDS.regulatory,
                      WEIGHTS.policy_regulation, "Regulatory/Policy")
      a7  == Category(a6, txt, HIGH_PRIORITY_KEYWORDS.analyst,
                      WEIGHTS.analyst_move, "Broker/Analyst Move")
      a8  == Category(a7, txt, HIGH_PRIORITY_KEYWORDS.block,
                      WEIGHTS.block_insider, "Block/Insider Deal")
      a9  == Accumulate(a8, has_numeric(txt),
                        WEIGHTS.numeric_mentioned, "Numeric Mention")
      a10 == Accumulate(a9, is_trusted(publisher),
                        WEIGHTS.trusted_source, "Trusted Source")
      a11 == Accumulate(a10, is_low_quality(publisher),
                        WEIGHTS.low_quality_penalty, "Low-quality Source (penalized)")
      a12 == Accumulate(a11, contains_any(txt, SPECULATIVE_WORDS),
                        WEIGHTS.speculative_penalty, "Speculative Language (penalized)")
      bonus == corroboration_bonus(corroboration_sources)
      reasons == IF bonus # 0 THEN Append(a12.reasons, "Corroboration")
                 ELSE a12.reasons
  IN  IF is_trusted_raises(publisher)
        THEN Raised("AttributeError")
      ELSE IF Truthy(corroboration_sources) /\ trusted_count_raises(corroboration_sources)
        THEN Raised("AttributeError")
      ELSE Returned(clamp(a12.raw + bonus), reasons)

----------------------------------------------------------------------------
(* The calls the model makes.  Bounds of the model:                        *)

(* longest corroboration list passed to score_article *)
MaxCorr == 7

(* longest title that gets one more keyword appended *)
MaxTitleLen == 40

(* "Q2 JV CEO bonus deal SEBI target insider 5 mn" *)
TitleEveryCategory == <<"Q", "2", " ", "J", "V", " ", "C", "E", "O", " ", "b", "o", "n", "u", "s", " ", "d", "e", "a", "l", " ", "S", "E", "B", "I", " ", "t", "a", "r", "g", "e", "t", " ", "i", "n", "s", "i", "d", "e", "r", " ", "5", " ", "m", "n">>

(* "Shares may rally" *)
TitleSpeculative == <<"S", "h", "a", "r", "e", "s", " ", "m", "a", "y", " ", "r", "a", "l", "l", "y">>

(* "Q2 Results" *)
TitleUpperCase == <<"Q", "2", " ", "R", "e", "s", "u", "l", "t", "s">>

(* "may 5%": the weights sum to -5 *)
TitleMinusFive == <<"m", "a", "y", " ", "5", "%">>

(* "Q2 JV CEO bonus": the weights sum to 95 *)
TitleNinetyFive == <<"Q", "2", " ", "J", "V", " ", "C", "E", "O", " ", "b", "o", "n", "u", "s">>

(* "Q2 JV CEO target": the weights sum to 90 *)
TitleNinety == <<"Q", "2", " ", "J", "V", " ", "C", "E", "O", " ", "t", "a", "r", "g", "e", "t">>

(* "5 crore" | "1,000.5  Crore" | "1234 crore" | "10crore" | "up 5%" | "₹10" | "3. mw" | "12 Tons" *)
NumericTitles ==
  { <<"5", " ", "c", "r", "o", "r", "e">>,
    <<"1", ",", "0", "0", "0", ".", "5", " ", " ", "C", "r", "o", "r", "e">>,
    <<"1", "2", "3", "4", " ", "c", "r", "o", "r", "e">>,
    <<"1", "0", "c", "r", "o", "r", "e">>,
    <<"u", "p", " ", "5", "%">>,
    <<"₹", "1", "0">>,
    <<"3", ".", " ", "m", "w">>,
    <<"1", "2", " ", "T", "o", "n", "s">> }

(* "Reuters" *)
PubReuters == <<"R", "e", "u", "t", "e", "r", "s">>

(* "some-random-blog" *)
PubBlog == <<"s", "o", "m", "e", "-", "r", "a", "n", "d", "o", "m", "-", "b", "l", "o", "g">>

(* "Reuters" | "some-random-blog" | "  The ECONOMIC TIMES " | "Mint Blog" | "Unknown Source" *)
PublisherNames ==
  { PubReuters,
    PubBlog,
    <<" ", " ", "T", "h", "e", " ", "E", "C", "O", "N", "O", "M", "I", "C", " ", "T", "I", "M", "E", "S", " ">>,
    <<"M", "i", "n", "t", " ", "B", "l", "o", "g">>,
    <<"U", "n", "k", "n", "o", "w", "n", " ", "S", "o", "u", "r", "c", "e">> }

(* publisher names as the headline index collects them: None, "", "unknown",
   "Reuters" twice, "reuters", "Bloomberg", "CNBC", "Mint", "BSE" *)
CorrPool ==
  << None,
     Str(<<>>),
     Str(<<"u", "n", "k", "n", "o", "w", "n">>),
     Str(<<"R", "e", "u", "t", "e", "r", "s">>),
     Str(<<"R", "e", "u", "t", "e", "r", "s">>),
     Str(<<"r", "e", "u", "t", "e", "r", "s">>),
     Str(<<"B", "l", "o", "o", "m", "b", "e", "r", "g">>),
     Str(<<"C", "N", "B", "C">>),
     Str(<<"M", "i", "n", "t">>),
     Str(<<"B", "S", "E">>) >>

(* the corroboration lists of the model: None and the runs of CorrPool *)
CorrLists ==
  {None} \cup
  {List(SubSeq(CorrPool, i, j)) :
     <<i, j>> \in {ij \in (1..Len(CorrPool)) \X (0..Len(CorrPool)) :
                     ij[2] - ij[1] + 1 \in 0..MaxCorr}}

Categories == DOMAIN HIGH_PRIORITY_KEYWORDS

AllKeywords == UNION {Range(HIGH_PRIORITY_KEYWORDS[c]) : c \in Categories}

EmptyStr == Str(<<>>)

ScoreArgs(title, desc, publisher, corroboration_sources) ==
  [title |-> title, desc |-> desc, publisher |-> publisher,
   corroboration_sources |-> corroboration_sources]

(* articles that differ in their text only *)
TextInputs ==
  {ScoreArgs(Str(t), EmptyStr, EmptyStr, None) :
     t \in {<<>>, TitleEveryCategory, TitleSpeculative, TitleUpperCase}
             \cup NumericTitles \cup AllKeywords \cup Range(SPECULATIVE_WORDS)}

(* articles that differ in their publisher *)
PublisherInputs ==
  {ScoreArgs(Str(t), EmptyStr, Str(p), None) :
     t \in {<<>>, TitleSpeculative, TitleEveryCategory}, p \in PublisherNames}

(* articles that differ in their corroboration list *)
SourceInputs ==
  {ScoreArgs(Str(t), EmptyStr, Str(p), c) :
     t \in {<<>>, TitleSpeculative, TitleEveryCategory},
     p \in {<<>>, PubReuters, PubBlog},
     c \in CorrLists}
  \cup
  {ScoreArgs(Str(t), EmptyStr, EmptyStr, c) :
     t \in {TitleMinusFive, TitleNinety, TitleNinetyFive}, c \in CorrLists}

(* None, the ints 5 and 0, "" and "million" *)
LooseValues == {None, PyInt(<<"5">>), PyInt(<<"0">>), EmptyStr,
                Str(<<"m", "i", "l", "l", "i", "o", "n">>)}

(* calls whose title, desc or publisher is absent or not a str *)
LooseInputs ==
  {ScoreArgs(t, d, p, None) : t \in LooseValues, d \in LooseValues, p \in LooseValues}

(* "Reliance Industries Q2 results beat estimates, declares ₹10 dividend" *)
ScenarioATitle == <<"R", "e", "l", "i", "a", "n", "c", "e", " ", "I", "n", "d", "u", "s", "t", "r", "i", "e", "s", " ", "Q", "2", " ", "r", "e", "s", "u", "l", "t", "s", " ", "b", "e", "a", "t", " ", "e", "s", "t", "i", "m", "a", "t", "e", "s", ",", " ", "d", "e", "c", "l", "a", "r", "e", "s", " ", "₹", "1", "0", " ", "d", "i", "v", "i", "d", "e", "n", "d">>

(* scenario A of the specification: Reuters, corroborated by Reuters,
   Bloomberg and Economic Times *)
ScenarioA ==
  ScoreArgs(Str(ScenarioATitle), EmptyStr, Str(PubReuters),
            List(<<Str(PubReuters), Str(<<"B", "l", "o", "o", "m", "b", "e", "r", "g">>),
                   Str(<<"E", "c", "o", "n", "o", "m", "i", "c", " ", "T", "i", "m", "e", "s">>)>>))

(* "Company shares may rally on rumoured stake sale" *)
ScenarioBTitle == <<"C", "o", "m", "p", "a", "n", "y", " ", "s", "h", "a", "r", "e", "s", " ", "m", "a", "y", " ", "r", "a", "l", "l", "y", " ", "o", "n", " ", "r", "u", "m", "o", "u", "r", "e", "d", " ", "s", "t", "a", "k", "e", " ", "s", "a", "l", "e">>

(* scenario B of the specification: some-random-blog, no corroboration *)
ScenarioB == ScoreArgs(Str(ScenarioBTitle), EmptyStr, Str(PubBlog), None)

(* the two scenarios; scenario B also with the empty list that
   headline_map.get(key, []) gives for a headline nobody reported *)
ScenarioInputs ==
  {ScenarioA, ScenarioB, [ScenarioB EXCEPT !.corroboration_sources = List(<<>>)]}

Inputs ==
  TextInputs \cup PublisherInputs \cup SourceInputs \cup LooseInputs
    \cup ScenarioInputs

NoCall == [made |-> FALSE, args |-> ScoreArgs(EmptyStr, EmptyStr, EmptyStr, None),
           ret |-> Returned(0, <<>>)]

(* score, reasons = score_article(title, desc, publisher, corroboration_sources=...) *)
Call(a) ==
  [made |-> TRUE, args |-> a,
   ret |-> score_article(a.title, a.desc, a.publisher, a.corroboration_sources)]

(* the call returned, it did not raise *)
HasReturned(call) == call.made /\ call.ret.exc = ""

(* txt of a call, app.py:370 *)
TextOf(a) == lower(Format(a.title) \o <<" ">> \o Format(a.desc))

Init ==
  /\ WEIGHTS = WEIGHTS_init
  /\ args \in Inputs
  /\ first = NoCall
  /\ last = NoCall
  /\ threshold = 40
  /\ only_impact = TRUE
  /\ saved_articles = <<>>
  /\ raw_news_results = <<>>
  /\ pc = "idle"
  /\ FetchIdle
  /\ PageIdle

(* a call of score_article with arguments a *)
ScoreArticle(a) ==
  /\ args' = a
  /\ last' = Call(a)
  /\ first' = IF first.made THEN first ELSE last'
  /\ UNCHANGED <<WEIGHTS, threshold, only_impact, saved_articles, raw_news_results,
               pc, fetchVars, pageVars>>

(* the first call of the run *)
ScoreFirst ==
  /\ ~first.made
  /\ ScoreArticle(args)

(* the article of the first call, scored without a corroboration list, with
   one more keyword of a category its text already matches *)
ScoreWithKeyword ==
  /\ first.made
  /\ args = first.args
  /\ args.title.t = "str"
  /\ args.corroboration_sources = None
  /\ \E c \in Categories :
       \E n \in DOMAIN HIGH_PRIORITY_KEYWORDS[c] :
         LET k == HIGH_PRIORITY_KEYWORDS[c][n]
         IN  /\ Len(args.title.s) + 1 + Len(k) <= MaxTitleLen
             /\ contains_any(Str(TextOf(args)), HIGH_PRIORITY_KEYWORDS[c])
             /\ ~IsSubstr(k, TextOf(args))
             /\ ScoreArticle([args EXCEPT !.title = Str(@.s \o <<" ">> \o k)])

(* the same article after one more publisher name was appended to its
   corroboration list *)
ScoreWithCorroborator ==
  /\ first.made
  /\ args.corroboration_sources # None
  /\ \E n \in DOMAIN CorrPool :
       LET c == List(Append(args.corroboration_sources.s, CorrPool[n]))
       IN  /\ c \in CorrLists
           /\ ScoreArticle([args EXCEPT !.corroboration_sources = c])

Next ==
  \/ ScoreFirst
  \/ ScoreWithKeyword
  \/ ScoreWithCorroborator

Spec == Init /\ [][Next]_vars

----------------------------------------------------------------------------
(* A Streamlit session: reruns of the script score articles again, between *)
(* changes of the News tab controls, clicks on "Save / Watch" and fetches. *)

(* the articles a session scores:
   "Q2 Results" by Reuters, corroborated by ["Reuters", "reuters"];
   "Shares may rally" by some-random-blog; the empty article *)
SessionInputs ==
  { ScoreArgs(Str(TitleUpperCase), EmptyStr, Str(PubReuters),
              List(<<Str(PubReuters), Str(lower(PubReuters))>>)),
    ScoreArgs(Str(TitleSpeculative), EmptyStr, Str(PubBlog), None),
    ScoreArgs(EmptyStr, EmptyStr, EmptyStr, None) }

(* positions of st.slider("Minimum score to show", 0, 100, 40) in the model *)
SliderValues == {0, 40, 70, 100}

(* art.get("url") or art.get("link") or "#" *)
Urls == {"#", "https://example.com/a"}

(* results of fetch_all_news for one stock: no article (also what a failed
   fetch gives) or one article *)
FetchResults ==
  { <<[Stock |-> "ITC", Articles |-> arts, NewsCount |-> Len(arts)]>> :
      arts \in {<<>>, <<[title |-> TitleUpperCase, publisher |-> PubReuters]>>} }

InitSession ==
  /\ WEIGHTS = WEIGHTS_init
  /\ args \in SessionInputs
  /\ first = NoCall
  /\ last = NoCall
  /\ threshold = 40
  /\ only_impact = TRUE
  /\ saved_articles = <<>>
  /\ raw_news_results = <<>>
  /\ pc = "idle"
  /\ FetchIdle
  /\ PageIdle

(* a rerun scores one of the articles *)
ScoreAny == \E a \in SessionInputs : ScoreArticle(a)

(* threshold = st.slider(...) *)
SetThreshold ==
  /\ \E v \in SliderValues : v # threshold /\ threshold' = v
  /\ UNCHANGED <<WEIGHTS, args, first, last, only_impact, saved_articles, raw_news_results,
               pc, fetchVars, pageVars>>

(* only_impact = st.checkbox(...) *)
SetOnlyImpact ==
  /\ only_impact' = ~only_impact
  /\ UNCHANGED <<WEIGHTS, args, first, last, threshold, saved_articles, raw_news_results,
               pc, fetchVars, pageVars>>

(* the watchlist with every entry appended, whatever it holds *)
save_watch_always(saved, entry) == Append(saved, entry)

(* the body of if st.button("Save / Watch", ...), app.py:701-706: found is
   the first saved entry with the url of the article, or None *)
save_watch(saved, entry) ==
  LET found == {i \in DOMAIN saved : saved[i].url = entry.url}
  IN  IF found = {} THEN Append(saved, entry) ELSE saved

(* the "Save / Watch" button of a listed article, app.py:700-706 *)
SaveWatch ==
  /\ HasReturned(last)
  /\ only_impact => last.ret.score >= threshold
  /\ \E url \in Urls :
       saved_articles' =
         save_watch(saved_articles,
                    [title |-> last.args.title.s, url |-> url,
                     score |-> last.ret.score])
  /\ UNCHANGED <<WEIGHTS, args, first, last, threshold, only_impact, raw_news_results,
               pc, fetchVars, pageVars>>

(* raw_news_results = fetch_all_news(...) *)
FetchAllNews ==
  /\ \E r \in FetchResults : r # raw_news_results /\ raw_news_results' = r
  /\ UNCHANGED <<WEIGHTS, args, first, last, threshold, only_impact, saved_articles,
               pc, fetchVars, pageVars>>

NextSession ==
  \/ ScoreAny
  \/ SetThreshold
  \/ SetOnlyImpact
  \/ SaveWatch
  \/ FetchAllNews

SpecSession == InitSession /\ [][NextSession]_vars

----------------------------------------------------------------------------
(* The news fetcher, app.py:186-270: fetch_news deduplicates what GNews    *)
(* returns for one stock, fetch_all_news runs one fetch_news per stock on  *)
(* a thread pool and collects the futures in the order they complete.      *)

(* fo_stocks, app.py:186-207 *)
fo_stocks ==
  << <<"R", "e", "l", "i", "a", "n", "c", "e", " ", "I", "n", "d", "u", "s", "t", "r", "i", "e", "s">>,
     <<"T", "C", "S">>,
     <<"I", "n", "f", "o", "s", "y", "s">>,
     <<"H", "D", "F", "C", " ", "B", "a", "n", "k">>,
     <<"I", "C", "I", "C", "I", " ", "B", "a", "n", "k">>,
     <<"S", "t", "a", "t", "e", " ", "B", "a", "n", "k", " ", "o", "f", " ", "I", "n", "d", "i", "a">>,
     <<"H", "C", "L", " ", "T", "e", "c", "h", "n", "o", "l", "o", "g", "i", "e", "s">>,
     <<"W", "i", "p", "r", "o">>,
     <<"L", "a", "r", "s", "e", "n", " ", "&", " ", "T", "o", "u", "b", "r", "o">>,
     <<"T", "a", "t", "a", " ", "M", "o", "t", "o", "r", "s">>,
     <<"B", "a", "j", "a", "j", " ", "F", "i", "n", "a", "n", "c", "e">>,
     <<"A", "x", "i", "s", " ", "B", "a", "n", "k">>,
     <<"N", "T", "P", "C">>,
     <<"I", "T", "C">>,
     <<"A", "d", "a", "n", "i", " ", "E", "n", "t", "e", "r", "p", "r", "i", "s", "e", "s">>,
     <<"C", "o", "a", "l", " ", "I", "n", "d", "i", "a">>,
     <<"P", "o", "w", "e", "r", " ", "G", "r", "i", "d">>,
     <<"M", "a", "r", "u", "t", "i", " ", "S", "u", "z", "u", "k", "i">>,
     <<"T", "e", "c", "h", " ", "M", "a", "h", "i", "n", "d", "r", "a">>,
     <<"S", "u", "n", " ", "P", "h", "a", "r", "m", "a">> >>

(* a dict such as {"title": "Reuters"}, the publisher field GNews fills in *)
Dict(title) == [t |-> "dict", s |-> title]

(* an article dict; a key whose value is None stands for an absent key *)
Article(title, description, publisher, source, url) ==
  [title |-> title, description |-> description, publisher |-> publisher,
   source |-> source, url |-> url]

(* art.get(k) *)
Get(art, k) == IF k \in DOMAIN art THEN art[k] ELSE None

(* a or b *)
Or(a, b) == IF Truthy(a) THEN a ELSE b

(* s[:n] *)
Truncate(s, n) == SubSeq(s, 1, Min(n, Len(s)))

(* re.sub(r'\W+', " ", s) on the characters a..b of s: a word character is
   kept, the first character of a run of non-word characters becomes one
   space and the rest of the run is dropped *)
RECURSIVE sub_nonword_range(_, _, _)
sub_nonword_range(s, a, b) ==
  IF a > b THEN <<>>
  ELSE IF a = b
    THEN IF s[a] \in WordChars THEN <<s[a]>>
         ELSE IF a > 1 /\ s[a - 1] \notin WordChars THEN <<>>
         ELSE <<" ">>
  ELSE sub_nonword_range(s, a, (a + b) \div 2)
         \o sub_nonword_range(s, (a + b) \div 2 + 1, b)

(* re.sub(r'\W+', " ", s) *)
sub_nonword(s) == sub_nonword_range(s, 1, Len(s))

(* the text json.dumps writes for one character of a str (ensure_ascii) *)
json_char(c) ==
  CASE c = "\"" -> <<"\\", "\"">>
    [] c = "\\" -> <<"\\", "\\">>
    [] c = "\n" -> <<"\\", "n">>
    [] c = "\t" -> <<"\\", "t">>
    [] c = "₹"  -> <<"\\", "u", "2", "0", "b", "9">>
    [] OTHER    -> <<c>>

(* the characters a..b of a str as json.dumps writes them *)
RECURSIVE json_chars(_, _, _)
json_chars(s, a, b) ==
  IF a > b THEN <<>>
  ELSE IF a = b THEN json_char(s[a])
  ELSE json_chars(s, a, (a + b) \div 2) \o json_chars(s, (a + b) \div 2 + 1, b)

(* json.dumps of a str *)
json_str(s) == <<"\"">> \o json_chars(s, 1, Len(s)) \o <<"\"">>

(* json.dumps of a value of an article *)
json_value(v) ==
  CASE v.t = "str"  -> json_str(v.s)
    [] v.t = "int"  -> v.s
    [] v.t = "dict" -> <<"{", "\"", "t", "i", "t", "l", "e", "\"", ":", " ">> \o json_str(v.s) \o <<"}">>
    [] v.t = "None" -> <<"n", "u", "l", "l">>

(* the keys of an article in sorted order *)
SortedKeys == <<"description", "publisher", "source", "title", "url">>

KeyText ==
  [description |-> <<"d", "e", "s", "c", "r", "i", "p", "t", "i", "o", "n">>,
   publisher |-> <<"p", "u", "b", "l", "i", "s", "h", "e", "r">>,
   source |-> <<"s", "o", "u", "r", "c", "e">>,
   title |-> <<"t", "i", "t", "l", "e">>,
   url |-> <<"u", "r", "l">>]

RECURSIVE json_items(_, _, _)
json_items(art, i, started) ==
  IF i > Len(SortedKeys) THEN <<>>
  ELSE LET k == SortedKeys[i]
       IN  IF Get(art, k) = None THEN json_items(art, i + 1, started)
           ELSE (IF started THEN <<",", " ">> ELSE <<>>)
                  \o json_str(KeyText[k]) \o <<":", " ">> \o json_value(art[k])
                  \o json_items(art, i + 1, TRUE)

(* json.dumps(art, sort_keys=True) *)
json_dumps(art) == <<"{">> \o json_items(art, 1, FALSE) \o <<"}">>

(* (art.get("title") or "").strip() raises AttributeError on a truthy title
   that is not a str *)
title_raises(art) == Truthy(Get(art, "title")) /\ Get(art, "title").t # "str"

(* the dedup key taken from the title as written, without lower() *)
dedup_key_cased(art) ==
  LET title == strip(Or(Get(art, "title"), EmptyStr).s)
      norm == strip(sub_nonword(title))
  IN  IF norm = <<>> THEN Truncate(json_dumps(art), 120) ELSE Truncate(norm, 200)

(* key of an article in fetch_news, app.py:241-247 *)
dedup_key(art) ==
  LET title == strip(Or(Get(art, "title"), EmptyStr).s)
      norm == strip(sub_nonword(lower(title)))
  IN  IF norm = <<>> THEN Truncate(json_dumps(art), 120) ELSE Truncate(norm, 200)

(* the loop of app.py:240-251 from article i on *)
RECURSIVE unique_from(_, _, _, _)
unique_from(raw, i, seen, unique_articles) ==
  IF i > Len(raw) THEN unique_articles
  ELSE LET key == dedup_key(raw[i])
       IN  IF key \in seen
             THEN unique_from(raw, i + 1, seen, unique_articles)
             ELSE unique_from(raw, i + 1, seen \cup {key},
                              Append(unique_articles, raw[i]))

(* what a function body gives: a value, or an exception on its way out *)
Value(v) == [exc |-> FALSE, value |-> v]

Raise == [exc |-> TRUE, value |-> <<>>]

(* the body of fetch_news without its handler *)
except_nothing(body) == body

(* except Exception: return [], app.py:254-256 *)
except_Exception(body) == IF body.exc THEN Value(<<>>) ELSE body

(* the try block of fetch_news, app.py:227-253; upstream is what
   GNews(...).get_news(stock) does: it raises, or returns None or a list *)
fetch_news_try(upstream) ==
  IF upstream.raises THEN Raise
  ELSE LET raw == Or(upstream.raw, List(<<>>))
       IN  IF ~Truthy(raw) THEN Value(<<>>)
           ELSE IF \E i \in DOMAIN raw.s : title_raises(raw.s[i]) THEN Raise
           ELSE Value(unique_from(raw.s, 1, {}, <<>>))

(* fetch_news(stock, start, end), app.py:219-256 *)
fetch_news(upstream) == except_Exception(fetch_news_try(upstream))

(* results.append(...) left out for a stock without articles *)
append_result_nonempty(res, stock, articles) ==
  IF articles = <<>> THEN res
  ELSE Append(res, [Stock |-> stock, Articles |-> articles,
                    NewsCount |-> Len(articles)])

(* results.append({"Stock": ..., "Articles": ..., "News Count": ...}) *)
append_result(res, stock, articles) ==
  Append(res, [Stock |-> stock, Articles |-> articles,
               NewsCount |-> Len(articles)])

(* s repeated n times *)
RECURSIVE Repeat(_, _)
Repeat(s, n) ==
  IF n = 0 THEN <<>>
  ELSE IF n = 1 THEN s
  ELSE Repeat(s, n \div 2) \o Repeat(s, n - n \div 2)

(* at most this many stocks are submitted to one fetch_all_news call *)
MaxStocks == 2

UrlA == <<"h", "t", "t", "p", "s", ":", "/", "/", "e", "x", "a", "m", "p", "l", "e", ".", "c", "o", "m", "/", "a">>

UrlB == <<"h", "t", "t", "p", "s", ":", "/", "/", "e", "x", "a", "m", "p", "l", "e", ".", "c", "o", "m", "/", "b">>

(* "Q2 results 5%" by Reuters *)
ArtReuters ==
  Article(Str(<<"Q", "2", " ", "r", "e", "s", "u", "l", "t", "s", " ", "5", "%">>), Str(<<"P", "r", "o", "f", "i", "t", " ", "u", "p">>), Dict(PubReuters), None, Str(UrlA))

(* the same headline, "  Q2 Results: 5%! ", by Bloomberg *)
ArtBloomberg ==
  Article(Str(<<" ", " ", "Q", "2", " ", "R", "e", "s", "u", "l", "t", "s", ":", " ", "5", "%", "!", " ">>), None, Dict(<<"B", "l", "o", "o", "m", "b", "e", "r", "g">>), None, Str(UrlB))

(* "!!!" by Mint: a title without a word character *)
ArtSymbols == Article(Str(<<"!", "!", "!">>), None, Dict(<<"M", "i", "n", "t">>), None, None)

(* "???" by Mint *)
ArtSymbols2 == Article(Str(<<"?", "?", "?">>), None, Dict(<<"M", "i", "n", "t">>), None, None)

(* two articles without a word character in the title whose JSON dumps
   differ after the 120th character only *)
ArtLongDesc1 ==
  Article(Str(<<".", ".", ".">>), Str(Repeat(<<"x">>, 130)), Dict(PubReuters), None, None)

ArtLongDesc2 ==
  Article(Str(<<"?", "!">>), Str(Repeat(<<"x">>, 130)), Dict(PubReuters), None, None)

(* "results results ... " 208 characters long, and the same followed by
   "beat": the normalized titles agree in their first 200 characters *)
ArtLong1 ==
  Article(Str(Repeat(<<"r", "e", "s", "u", "l", "t", "s", " ">>, 26)), None, Dict(PubReuters), None, Str(UrlA))

ArtLong2 ==
  Article(Str(Repeat(<<"r", "e", "s", "u", "l", "t", "s", " ">>, 26) \o <<"b", "e", "a", "t">>), None,
          Dict(<<"B", "l", "o", "o", "m", "b", "e", "r", "g">>), None, Str(UrlB))

(* an article without a title *)
ArtNoTitle == Article(None, Str(<<"P", "r", "o", "f", "i", "t", " ", "u", "p">>), None, Str(<<"M", "i", "n", "t">>), None)

(* an article whose title is the int 5 *)
ArtBadTitle == Article(PyInt(<<"5">>), None, Dict(PubReuters), None, None)

(* lists GNews returns for a stock *)
RawLists ==
  { <<>>,
    <<ArtReuters, ArtBloomberg, ArtSymbols, ArtSymbols, ArtSymbols2>>,
    <<ArtLong1, ArtLong2, ArtLongDesc1, ArtLongDesc2, ArtNoTitle>>,
    <<ArtReuters, ArtBadTitle>> }

(* what GNews(...).get_news(stock) does: it raises, or returns None or a
   list of articles *)
Upstream ==
  {[raises |-> TRUE, raw |-> None], [raises |-> FALSE, raw |-> None]}
    \cup {[raises |-> FALSE, raw |-> List(l)] : l \in RawLists}

(* the lists of stocks submitted: fo_stocks[:n] *)
StockLists == {SubSeq(fo_stocks, 1, n) : n \in 1..MaxStocks}

(* a future that has not run yet *)
Pending == [state |-> "pending", upstream |-> [raises |-> FALSE, raw |-> None],
            ret |-> Value(<<>>)]

(* fetch_all_news(stocks, start, end) after the submits of app.py:262 *)
InitFetch ==
  /\ WEIGHTS = WEIGHTS_init
  /\ args = ScoreArgs(EmptyStr, EmptyStr, EmptyStr, None)
  /\ first = NoCall
  /\ last = NoCall
  /\ threshold = 40
  /\ only_impact = TRUE
  /\ saved_articles = <<>>
  /\ raw_news_results = <<>>
  /\ pc = "submitted"
  /\ stocks \in StockLists
  /\ futures = [i \in DOMAIN stocks |-> Pending]
  /\ results = <<>>
  /\ PageIdle

(* a worker thread runs fetch_news for one stock to its end *)
RunFetchNews ==
  /\ pc = "submitted"
  /\ \E i \in DOMAIN futures :
       /\ futures[i].state = "pending"
       /\ \E u \in Upstream :
            futures' = [futures EXCEPT ![i] =
                          [state |-> "done", upstream |-> u, ret |-> fetch_news(u)]]
  /\ UNCHANGED <<scoreVars, raw_news_results, pc, stocks, results, pageVars>>

(* one turn of the loop over as_completed(futures), app.py:263-269 *)
AsCompleted ==
  /\ pc = "submitted"
  /\ \E i \in DOMAIN futures :
       /\ futures[i].state = "done"
       /\ results' =
            IF futures[i].ret.exc
              THEN append_result(results, stocks[i], <<>>)
              ELSE append_result(results, stocks[i],
                                 Or(List(futures[i].ret.value), List(<<>>)).s)
       /\ futures' = [futures EXCEPT ![i].state = "yielded"]
  /\ UNCHANGED <<scoreVars, raw_news_results, pc, stocks, pageVars>>

(* return results, app.py:270 *)
ReturnResults ==
  /\ pc = "submitted"
  /\ \A i \in DOMAIN futures : futures[i].state = "yielded"
  /\ pc' = "returned"
  /\ raw_news_results' = results
  /\ UNCHANGED <<scoreVars, stocks, futures, results, pageVars>>

NextFetch ==
  \/ RunFetchNews
  \/ AsCompleted
  \/ ReturnResults

SpecFetch == InitFetch /\ [][NextFetch]_vars

----------------------------------------------------------------------------
(* One run of the script below the fetch, app.py:434-476 and 619-764: the  *)
(* publisher filter, the headline index, the News tab and the Trending tab. *)

(* pub_title of the publisher filter, app.py:444-451 *)
pub_title(art) ==
  LET pub_field == Get(art, "publisher")
  IN  IF pub_field.t = "dict" THEN strip(Or(Str(pub_field.s), EmptyStr).s)
      ELSE IF pub_field.t = "str" THEN strip(pub_field.s)
      ELSE strip(Or(Get(art, "source"), EmptyStr).s)

(* the filter without its test: every article is kept *)
has_publisher_always(art) == TRUE

(* if pub_title:, app.py:452 *)
has_publisher(art) == pub_title(art) # <<>>

(* the article after app.py:453-456 *)
with_publisher(art) == [art EXCEPT !.publisher = Dict(pub_title(art))]

(* filtered_articles of app.py:442-457 *)
filtered_articles(articles) ==
  LET kept == SelectSeq(articles, has_publisher)
  IN  [j \in DOMAIN kept |-> with_publisher(kept[j])]

(* the publisher name read from an article, app.py:468-475, 644-650 and
   746-752 *)
publisher_of(art) ==
  LET pub == Get(art, "publisher")
  IN  IF pub.t = "dict" THEN Or(Str(pub.s), EmptyStr)
      ELSE IF pub.t = "str" THEN pub
      ELSE Or(Get(art, "source"), EmptyStr)

(* the index key cut at 200 characters, as the dedup key of fetch_news is *)
headline_key_200(stock, title) ==
  LET norm_head == strip(sub_nonword(lower(title.s)))
  IN  IF norm_head # <<>> THEN Truncate(norm_head, 200)
      ELSE lower(stock) \o <<"_">> \o Truncate(Or(title, EmptyStr).s, 40)

(* key when the index is built, app.py:466-467 *)
headline_key(stock, title) ==
  LET norm_head == strip(sub_nonword(lower(title.s)))
  IN  IF norm_head # <<>> THEN Truncate(norm_head, 120)
      ELSE lower(stock) \o <<"_">> \o Truncate(Or(title, EmptyStr).s, 40)

(* key in the News tab, app.py:652-653 *)
news_key(stock, title) ==
  LET norm_head == strip(sub_nonword(lower(title.s)))
  IN  IF norm_head # <<>> THEN Truncate(norm_head, 120)
      ELSE lower(stock) \o <<"_">> \o Truncate(Or(title, EmptyStr).s, 40)

(* key in the Trending tab, app.py:755-756 *)
trending_key(stock_name, title) ==
  LET norm_head == strip(sub_nonword(lower(Or(title, EmptyStr).s)))
  IN  IF norm_head # <<>> THEN Truncate(norm_head, 120)
      ELSE lower(stock_name) \o <<"_">> \o Truncate(Or(title, EmptyStr).s, 40)

(* headline_map.setdefault(key, []).append(name) *)
setdefault_append(map, key, name) ==
  [k \in DOMAIN map \cup {key} |->
     IF k = key
       THEN (IF key \in DOMAIN map THEN Append(map[key], name) ELSE <<name>>)
       ELSE map[k]]

(* headline_map.get(key, []) *)
get_publishers(map, key) == IF key \in DOMAIN map THEN map[key] ELSE <<>>

(* the list kept when the score is above the threshold only *)
visible_strict(scored, impact, limit) ==
  IF impact THEN SelectSeq(scored, LAMBDA s : s.score > limit) ELSE scored

(* visible, app.py:658-661 *)
visible(scored, impact, limit) ==
  IF impact THEN SelectSeq(scored, LAMBDA s : s.score >= limit) ELSE scored

(* the label given when the score is above the threshold only *)
priority_label_strict(score, limit) ==
  IF score >= 70 THEN "High"
  ELSE IF score > limit THEN "Medium"
  ELSE "Low"

(* priority_label, app.py:677-685 *)
priority_label(score, limit) ==
  IF score >= 70 THEN "High"
  ELSE IF score >= limit THEN "Medium"
  ELSE "Low"

(* the totals with every scored article counted as displayed *)
add_totals_scored(sums, scored, vis) ==
  [filtered_out_total |-> sums.filtered_out_total + (Len(scored) - Len(vis)),
   displayed_total |-> sums.displayed_total + Len(scored)]

(* filtered_out_total += (len(scored_list) - len(visible));
   displayed_total += len(visible), app.py:663-664 *)
add_totals(sums, scored, vis) ==
  [filtered_out_total |-> sums.filtered_out_total + (Len(scored) - Len(vis)),
   displayed_total |-> sums.displayed_total + Len(vis)]

(* sum(len(r.get('Articles', [])) for r in news_results) over the records
   from n on, app.py:712 *)
RECURSIVE scanned_from(_, _)
scanned_from(batch, n) ==
  IF n > Len(batch) THEN 0
  ELSE Len(batch[n].Articles) + scanned_from(batch, n + 1)

(* the three numbers of the summary line, app.py:712 *)
summary(sums, batch) ==
  [displayed |-> sums.displayed_total, filtered_out |-> sums.filtered_out_total,
   scanned |-> scanned_from(batch, 1)]

(* re.sub(r'\W+', '_', stock.lower()), app.py:697 *)
safe_stock(stock) ==
  LET spaced == sub_nonword(lower(stock))
  IN  [i \in DOMAIN spaced |-> IF spaced[i] = " " THEN "_" ELSE spaced[i]]

(* abs(hash(url)): an integer that equal urls share and that different
   urls may share; the length of the url stands for it, so that both happen *)
url_hash(url) == Len(url)

(* save_key = f"save_{safe_stock}_{idx}_{abs(hash(url))}", app.py:698 *)
save_key(stock, idx, url) == <<safe_stock(stock), idx, url_hash(url)>>

(* st.button("Save / Watch", key=save_key): true in the run that the click
   on the button with this key started *)
button(key, click) == click # NoClick /\ key = click

(* the entry the handler appends for a row, app.py:703; no article of the
   model has a "published date" *)
watch_entry(stock, row) ==
  [title |-> row.title, url |-> row.url, stock |-> stock, date |-> None,
   score |-> row.score]

(* the buttons of the rows of one stock from row n on, in the order the
   loop of app.py:669 renders them, app.py:697-706 *)
RECURSIVE press_buttons(_, _, _, _, _)
press_buttons(saved, stock, rows, n, click) ==
  IF n > Len(rows) THEN saved
  ELSE press_buttons(
         IF button(save_key(stock, n - 1, rows[n].url), click)
           THEN save_watch(saved, watch_entry(stock, rows[n]))
           ELSE saved,
         stock, rows, n + 1, click)

(* impact_threshold of the Trending tab, app.py:730 *)
impact_threshold == 40

(* the positions <<record, article>> of the articles of a batch *)
Positions(batch) ==
  UNION {{<<i, j>> : j \in DOMAIN batch[i].Articles} : i \in DOMAIN batch}

Before(p, q) == p[1] < q[1] \/ (p[1] = q[1] /\ p[2] < q[2])

(* the loops have run past the last article *)
End == <<0, 0>>

(* the first article of a batch in the order of the nested for loops *)
FirstPos(batch) ==
  IF Positions(batch) = {} THEN End
  ELSE CHOOSE p \in Positions(batch) : \A q \in Positions(batch) : p = q \/ Before(p, q)

(* the article after position p *)
NextPos(batch, p) ==
  LET later == {q \in Positions(batch) : Before(p, q)}
  IN  IF later = {} THEN End
      ELSE CHOOSE q \in later : \A r \in later : q = r \/ Before(q, r)

(* "Profit 5%" by the plain str " Some Daily " *)
ArtForty ==
  Article(Str(<<"P", "r", "o", "f", "i", "t", " ", "5", "%">>), None, Str(<<" ", "S", "o", "m", "e", " ", "D", "a", "i", "l", "y", " ">>), None, Str(UrlB))

(* "Shares may rally" by some-random-blog *)
ArtBlog == Article(Str(TitleSpeculative), None, Dict(PubBlog), None, None)

(* "Q2 JV CEO bonus deal SEBI target insider 5 mn" by Reuters *)
ArtHundred == Article(Str(TitleEveryCategory), None, Dict(PubReuters), None, None)

(* "Q2 merger" by Reuters *)
ArtSeventy == Article(Str(<<"Q", "2", " ", "m", "e", "r", "g", "e", "r">>), None, Dict(PubReuters), None, None)

(* "Dividend declared" without publisher and source *)
ArtNoPublisher == Article(Str(<<"D", "i", "v", "i", "d", "e", "n", "d", " ", "d", "e", "c", "l", "a", "r", "e", "d">>), None, None, None, None)

(* "Buyback approved" by Reuters and by Bloomberg *)
ArtBuybackReuters ==
  Article(Str(<<"B", "u", "y", "b", "a", "c", "k", " ", "a", "p", "p", "r", "o", "v", "e", "d">>), None, Dict(PubReuters), None, Str(UrlA))

ArtBuybackBloomberg ==
  Article(Str(<<"B", "u", "y", "b", "a", "c", "k", " ", "a", "p", "p", "r", "o", "v", "e", "d">>), None, Dict(<<"B", "l", "o", "o", "m", "b", "e", "r", "g">>), None, Str(UrlB))

(* what fetch_news returns for each stock of fo_stocks: lists for the first,
   the second, the eleventh and the twelfth stock, nothing for the others *)
Feed(first_stock, second, eleventh, twelfth) ==
  [i \in DOMAIN fo_stocks |->
     CASE i = 1  -> first_stock
       [] i = 2  -> second
       [] i = 11 -> eleventh
       [] i = 12 -> twelfth
       [] OTHER  -> <<>>]

Feeds ==
  { Feed(<<ArtReuters, ArtBlog, ArtForty, ArtSeventy, ArtHundred>>,
         <<ArtBloomberg, ArtNoPublisher, ArtNoTitle>>,
         <<ArtBuybackReuters>>, <<ArtBuybackBloomberg>>),
    Feed(<<ArtLong1, ArtSymbols, ArtNoTitle>>, <<ArtLong2, ArtSymbols2>>,
         <<>>, <<>>),
    Feed(<<>>, <<>>, <<>>, <<>>) }

(* the order the futures of fo_stocks[from..to] complete in: the order of
   submission, or its reverse *)
Orders(from, to) ==
  { [n \in 1..(to - from + 1) |-> from + n - 1],
    [n \in 1..(to - from + 1) |-> to - n + 1] }

(* what fetch_all_news returns for the stocks of an order *)
Results(order, feed) ==
  [n \in DOMAIN order |->
     [Stock |-> fo_stocks[order[n]], Articles |-> feed[order[n]],
      NewsCount |-> Len(feed[order[n]])]]

(* the script right after raw_news_results = fetch_all_news(fo_stocks[:10], ...),
   app.py:435, with the News tab controls in one of their positions *)
InitPage ==
  /\ WEIGHTS = WEIGHTS_init
  /\ args = ScoreArgs(EmptyStr, EmptyStr, EmptyStr, None)
  /\ first = NoCall
  /\ last = NoCall
  /\ threshold \in SliderValues
  /\ only_impact \in BOOLEAN
  /\ saved_articles = <<>>
  /\ FetchIdle
  /\ fetched \in Feeds
  /\ \E order \in Orders(1, Min(10, Len(fo_stocks))) :
       raw_news_results = Results(order, fetched)
  /\ pc = "filter"
  /\ news_results = <<>>
  /\ headline_map = <<>>
  /\ all_results = <<>>
  /\ cursor = <<0, 0>>
  /\ scored_list = <<>>
  /\ shown = <<>>
  /\ lookup = NoLookup
  /\ totals = [displayed_total |-> 0, filtered_out_total |-> 0]
  /\ impactful_count = 0
  /\ counts = <<>>
  /\ clicked = NoClick
  /\ runs = 1

(* the publisher filter, app.py:438-458, and headline_map = {} *)
FilterPublishers ==
  /\ pc = "filter"
  /\ news_results' =
       [n \in DOMAIN raw_news_results |->
          LET kept == filtered_articles(raw_news_results[n].Articles)
          IN  [Stock |-> raw_news_results[n].Stock, Articles |-> kept,
               NewsCount |-> Len(kept)]]
  /\ raw_news_results' =
       [n \in DOMAIN raw_news_results |->
          [raw_news_results[n] EXCEPT !.Articles =
             [j \in DOMAIN @ |->
                IF has_publisher(@[j]) THEN with_publisher(@[j]) ELSE @[j]]]]
  /\ headline_map' = <<>>
  /\ IF FirstPos(news_results') = End
       THEN pc' = "news" /\ cursor' = <<1, 1>>
       ELSE pc' = "index" /\ cursor' = FirstPos(news_results')
  /\ UNCHANGED <<scoreVars, fetchVars, fetched, all_results, scored_list, shown,
                 lookup, totals, impactful_count, counts,
                 clicked, runs>>

(* one turn of the inner loop that builds headline_map, app.py:464-476 *)
BuildIndex ==
  /\ pc = "index"
  /\ LET res == news_results[cursor[1]]
         art == res.Articles[cursor[2]]
         title == Or(Get(art, "title"), EmptyStr)
         key == headline_key(res.Stock, title)
         pub_name == publisher_of(art)
         next == NextPos(news_results, cursor)
     IN  /\ headline_map' =
              setdefault_append(headline_map, key, Or(pub_name, Str(<<"u", "n", "k", "n", "o", "w", "n">>)))
         /\ lookup' = [site |-> "build", stock |-> res.Stock, title |-> title.s,
                       key |-> key, publishers |-> headline_map'[key]]
         /\ IF next = End
              THEN pc' = "news" /\ cursor' = <<1, 1>>
              ELSE pc' = "index" /\ cursor' = next
  /\ UNCHANGED <<scoreVars, raw_news_results, fetchVars, fetched, news_results,
                 all_results, scored_list, shown, totals, impactful_count, counts,
                 clicked, runs>>

(* one turn of the inner loop of the News tab, app.py:641-656 *)
ScoreNews ==
  /\ pc = "news"
  /\ cursor[1] \in DOMAIN news_results
  /\ cursor[2] \in DOMAIN news_results[cursor[1]].Articles
  /\ LET res == news_results[cursor[1]]
         art == res.Articles[cursor[2]]
         title == Or(Get(art, "title"), EmptyStr)
         desc == Or(Get(art, "description"), Or(Get(art, "snippet"), EmptyStr))
         publisher == publisher_of(art)
         url == Or(Get(art, "url"), Or(Get(art, "link"), Str(<<"#">>)))
         key == news_key(res.Stock, title)
         publishers_for_head == get_publishers(headline_map, key)
         a == ScoreArgs(title, desc, publisher, List(publishers_for_head))
     IN  /\ args' = a
         /\ last' = Call(a)
         /\ first' = IF first.made THEN first ELSE last'
         /\ lookup' = [site |-> "news", stock |-> res.Stock, title |-> title.s,
                       key |-> key, publishers |-> publishers_for_head]
         /\ IF last'.ret.exc = ""
              THEN /\ scored_list' =
                        Append(scored_list,
                               [title |-> title.s, desc |-> desc.s,
                                publisher |-> Or(publisher, Str(<<"U", "n", "k", "n", "o", "w", "n", " ", "S", "o", "u", "r", "c", "e">>)).s,
                                url |-> url.s, score |-> last'.ret.score,
                                reasons |-> last'.ret.reasons])
                   /\ cursor' = <<cursor[1], cursor[2] + 1>>
                   /\ pc' = "news"
              ELSE /\ pc' = "crashed"
                   /\ UNCHANGED <<scored_list, cursor>>
  /\ UNCHANGED <<WEIGHTS, threshold, only_impact, saved_articles, raw_news_results,
                 fetchVars, fetched, news_results, headline_map, all_results,
                 shown, totals, impactful_count, counts,
                 clicked, runs>>

(* the rest of the body of the outer loop of the News tab for one stock,
   app.py:658-710 *)
ShowStock ==
  /\ pc = "news"
  /\ cursor[1] \in DOMAIN news_results
  /\ cursor[2] > Len(news_results[cursor[1]].Articles)
  /\ LET vis == visible(scored_list, only_impact, threshold)
         rows == [n \in 1..Min(10, Len(vis)) |->
                    [title |-> vis[n].title, url |-> vis[n].url,
                     score |-> vis[n].score,
                     priority_label |-> priority_label(vis[n].score, threshold)]]
     IN  /\ totals' = add_totals(totals, scored_list, vis)
         /\ shown' = Append(shown, [Stock |-> news_results[cursor[1]].Stock,
                                    scored_list |-> scored_list,
                                    visible |-> vis, rows |-> rows])
         /\ saved_articles' =
              press_buttons(saved_articles, news_results[cursor[1]].Stock,
                            rows, 1, clicked)
  /\ scored_list' = <<>>
  /\ IF cursor[1] = Len(news_results)
       THEN pc' = "trending_fetch" /\ cursor' = End
       ELSE pc' = "news" /\ cursor' = <<cursor[1] + 1, 1>>
  /\ UNCHANGED <<WEIGHTS, args, first, last, threshold, only_impact,
                 raw_news_results, fetchVars, fetched, news_results,
                 headline_map, all_results, lookup, impactful_count, counts,
                 clicked, runs>>

(* all_results = fetch_all_news(fo_stocks, start_date, today), app.py:734;
   fetch_news is cached, each stock gets the list it got before *)
FetchTrending ==
  /\ pc = "trending_fetch"
  /\ \E order \in Orders(1, Len(fo_stocks)) :
       all_results' = Results(order, fetched)
  /\ counts' = <<>>
  /\ impactful_count' = 0
  /\ cursor' = <<1, 1>>
  /\ pc' = "trending"
  /\ UNCHANGED <<scoreVars, raw_news_results, fetchVars, fetched, news_results,
                 headline_map, scored_list, shown, lookup, totals,
                 clicked, runs>>

(* one turn of the inner loop of the Trending tab, app.py:742-762 *)
ScoreTrending ==
  /\ pc = "trending"
  /\ cursor[1] \in DOMAIN all_results
  /\ cursor[2] \in DOMAIN all_results[cursor[1]].Articles
  /\ LET res == all_results[cursor[1]]
         art == res.Articles[cursor[2]]
         title == Or(Get(art, "title"), EmptyStr)
         desc == Or(Get(art, "description"), Or(Get(art, "snippet"), EmptyStr))
         publisher == publisher_of(art)
         key == trending_key(res.Stock, title)
         publishers_for_head == get_publishers(headline_map, key)
         a == ScoreArgs(title, desc, publisher, List(publishers_for_head))
     IN  /\ args' = a
         /\ last' = Call(a)
         /\ first' = IF first.made THEN first ELSE last'
         /\ lookup' = [site |-> "trending", stock |-> res.Stock, title |-> title.s,
                       key |-> key, publishers |-> publishers_for_head]
         /\ IF last'.ret.exc = ""
              THEN /\ impactful_count' =
                        IF last'.ret.score >= impact_threshold
                          THEN impactful_count + 1 ELSE impactful_count
                   /\ cursor' = <<cursor[1], cursor[2] + 1>>
                   /\ pc' = "trending"
              ELSE /\ pc' = "crashed"
                   /\ UNCHANGED <<impactful_count, cursor>>
  /\ UNCHANGED <<WEIGHTS, threshold, only_impact, saved_articles, raw_news_results,
                 fetchVars, fetched, news_results, headline_map, all_results,
                 scored_list, shown, totals, counts,
                 clicked, runs>>

(* counts.append(...) for one stock of the Trending tab, app.py:764 *)
CountStock ==
  /\ pc = "trending"
  /\ cursor[1] \in DOMAIN all_results
  /\ cursor[2] > Len(all_results[cursor[1]].Articles)
  /\ counts' = Append(counts, [Stock |-> all_results[cursor[1]].Stock,
                               NewsCount |-> impactful_count])
  /\ impactful_count' = 0
  /\ IF cursor[1] = Len(all_results)
       THEN pc' = "done" /\ cursor' = End
       ELSE pc' = "trending" /\ cursor' = <<cursor[1] + 1, 1>>
  /\ UNCHANGED <<scoreVars, raw_news_results, fetchVars, fetched, news_results,
                 headline_map, all_results, scored_list, shown, lookup, totals,
                 clicked, runs>>

NextPage ==
  \/ FilterPublishers
  \/ BuildIndex
  \/ ScoreNews
  \/ ShowStock
  \/ FetchTrending
  \/ ScoreTrending
  \/ CountStock

SpecPage == InitPage /\ [][NextPage]_vars

----------------------------------------------------------------------------
(* A session of the page: the first run with the News tab controls at      *)
(* their defaults, then reruns that a click on a "Save / Watch" button, a  *)
(* change of a control or the auto refresh starts.  The session state      *)
(* (saved_articles) lives across the runs, the rest is computed again.     *)

(* the runs of a session in the model *)
MaxRuns == 3

(* feeds with articles that share a url, within a stock and across stocks,
   and with articles without a url *)
WatchFeeds ==
  { Feed(<<ArtBuybackReuters, ArtSeventy, ArtHundred, ArtForty>>,
         <<ArtBuybackBloomberg, ArtBlog>>, <<>>, <<>>),
    Feed(<<ArtBuybackBloomberg, ArtForty>>, <<>>, <<>>, <<>>) }

(* the positions the slider is moved between in a session: the default,
   and the top, where only "Q2 JV CEO ... 5 mn" is shown *)
WatchSliderValues == {40, 100}

(* the keys of the buttons on the page *)
Buttons ==
  UNION { { save_key(shown[n].Stock, i - 1, shown[n].rows[i].url) :
              i \in DOMAIN shown[n].rows } : n \in DOMAIN shown }

(* what the cache of fetch_all_news (st.cache_data, app.py:258) returns for
   the call that gave batch: the same records in the same order, each a
   fresh copy of what fetch_news returned *)
Cached(batch, feed) ==
  [n \in DOMAIN batch |->
     LET i == CHOOSE k \in DOMAIN fo_stocks : fo_stocks[k] = batch[n].Stock
     IN  [Stock |-> batch[n].Stock, Articles |-> feed[i],
          NewsCount |-> Len(feed[i])]]

(* the first run of a session, after raw_news_results = fetch_all_news(...),
   app.py:435: the controls at their defaults (app.py:625-627), the
   watchlist empty (app.py:428) *)
InitWatch ==
  /\ WEIGHTS = WEIGHTS_init
  /\ args = ScoreArgs(EmptyStr, EmptyStr, EmptyStr, None)
  /\ first = NoCall
  /\ last = NoCall
  /\ threshold = 40
  /\ only_impact = TRUE
  /\ saved_articles = <<>>
  /\ FetchIdle
  /\ fetched \in WatchFeeds
  /\ \E order \in Orders(1, Min(10, Len(fo_stocks))) :
       raw_news_results = Results(order, fetched)
  /\ pc = "filter"
  /\ news_results = <<>>
  /\ headline_map = <<>>
  /\ all_results = <<>>
  /\ cursor = <<0, 0>>
  /\ scored_list = <<>>
  /\ shown = <<>>
  /\ lookup = NoLookup
  /\ totals = [displayed_total |-> 0, filtered_out_total |-> 0]
  /\ impactful_count = 0
  /\ counts = <<>>
  /\ clicked = NoClick
  /\ runs = 1

(* the script runs again from the top to raw_news_results = fetch_all_news(...),
   app.py:435, on the finished page: after a click on one of its
   "Save / Watch" buttons, after a change of the slider or of the checkbox
   (app.py:625-627), or on the auto refresh (app.py:153-162); the fetch is
   answered from the cache or, the cache expired, made again *)
Rerun ==
  /\ pc = "done"
  /\ runs < MaxRuns
  /\ runs' = runs + 1
  /\ \/ /\ \E key \in Buttons : clicked' = key
        /\ UNCHANGED <<threshold, only_impact>>
     \/ /\ clicked' = NoClick
        /\ \E v \in WatchSliderValues : v # threshold /\ threshold' = v
        /\ UNCHANGED only_impact
     \/ /\ clicked' = NoClick
        /\ only_impact' = ~only_impact
        /\ UNCHANGED threshold
     \/ /\ clicked' = NoClick
        /\ UNCHANGED <<threshold, only_impact>>
  /\ \/ /\ fetched' = fetched
        /\ raw_news_results' = Cached(raw_news_results, fetched)
     \/ /\ fetched' \in WatchFeeds
        /\ \E order \in Orders(1, Min(10, Len(fo_stocks))) :
             raw_news_results' = Results(order, fetched')
  /\ args' = ScoreArgs(EmptyStr, EmptyStr, EmptyStr, None)
  /\ first' = NoCall
  /\ last' = NoCall
  /\ pc' = "filter"
  /\ news_results' = <<>>
  /\ headline_map' = <<>>
  /\ all_results' = <<>>
  /\ cursor' = <<0, 0>>
  /\ scored_list' = <<>>
  /\ shown' = <<>>
  /\ lookup' = NoLookup
  /\ totals' = [displayed_total |-> 0, filtered_out_total |-> 0]
  /\ impactful_count' = 0
  /\ counts' = <<>>
  /\ UNCHANGED <<WEIGHTS, saved_articles, fetchVars>>

NextWatch ==
  \/ FilterPublishers
  \/ BuildIndex
  \/ ScoreNews
  \/ ShowStock
  \/ FetchTrending
  \/ ScoreTrending
  \/ CountStock
  \/ Rerun

SpecWatch == InitWatch /\ [][NextWatch]_vars

----------------------------------------------------------------------------
(* What the specification says of a call, in terms of the twelve           *)
(* predicates and their configured weights.                                *)

Predicates == Categories \cup {"numeric", "trusted", "low_quality", "speculative"}

Matches(p, a) ==
  CASE p \in Categories  -> contains_any(Str(TextOf(a)), HIGH_PRIORITY_KEYWORDS[p])
    [] p = "numeric"     -> has_numeric(Str(TextOf(a)))
    [] p = "trusted"     -> is_trusted(a.publisher)
    [] p = "low_quality" -> is_low_quality(a.publisher)
    [] p = "speculative" -> contains_any(Str(TextOf(a)), SPECULATIVE_WORDS)

Matched(a) == {p \in Predicates : Matches(p, a)}

WeightOf(p) ==
  CASE p = "earnings"    -> WEIGHTS.earnings_guidance
    [] p = "MA"          -> WEIGHTS.MA_JV
    [] p = "management"  -> WEIGHTS.management_change
    [] p = "corp_action" -> WEIGHTS.buyback_dividend
    [] p = "contract"    -> WEIGHTS.contract_deal
    [] p = "regulatory"  -> WEIGHTS.policy_regulation
    [] p = "analyst"     -> WEIGHTS.analyst_move
    [] p = "block"       -> WEIGHTS.block_insider
    [] p = "numeric"     -> WEIGHTS.numeric_mentioned
    [] p = "trusted"     -> WEIGHTS.trusted_source
    [] p = "low_quality" -> WEIGHTS.low_quality_penalty
    [] p = "speculative" -> WEIGHTS.speculative_penalty

(* the predicates in the evaluation order of the specification, each with
   its reason label *)
LabelOrder ==
  << <<"earnings", "Earnings/Guidance">>,
     <<"MA", "M&A/JV">>,
     <<"management", "Management/Govt">>,
     <<"corp_action", "Corporate Action">>,
     <<"contract", "Contract/Order">>,
     <<"regulatory", "Regulatory/Policy">>,
     <<"analyst", "Broker/Analyst Move">>,
     <<"block", "Block/Insider Deal">>,
     <<"numeric", "Numeric Mention">>,
     <<"trusted", "Trusted Source">>,
     <<"low_quality", "Low-quality Source (penalized)">>,
     <<"speculative", "Speculative Language (penalized)">>,
     <<"corroboration", "Corroboration">> >>

LabelOf(p) == LabelOrder[CHOOSE i \in DOMAIN LabelOrder : LabelOrder[i][1] = p][2]

RECURSIVE SumWeights(_)
SumWeights(ps) ==
  IF ps = {} THEN 0
  ELSE LET p == CHOOSE q \in ps : TRUE
       IN  WeightOf(p) + SumWeights(ps \ {p})

(* the sum of the weights of the predicates the article matches *)
PredicateSum(a) == SumWeights(Matched(a))

Clamped(x) == IF x < 0 THEN 0 ELSE IF x > 100 THEN 100 ELSE x

(* distinct non-empty trusted names of a corroboration list, told apart by
   exact string value *)
TrustedNames(c) ==
  IF c.t # "list" THEN {}
  ELSE {n \in Range(c.s) : n.t = "str" /\ n.s # <<>> /\ is_trusted(n)}

(* first and last are two returned calls on the same title, description and
   publisher *)
SameArticle ==
  /\ HasReturned(first)
  /\ HasReturned(last)
  /\ first.args.title = last.args.title
  /\ first.args.desc = last.args.desc
  /\ first.args.publisher = last.args.publisher

(* last is the article of first with one keyword appended to its title *)
KeywordAdded ==
  /\ HasReturned(first)
  /\ HasReturned(last)
  /\ first.args.title # last.args.title

----------------------------------------------------------------------------
(* C1: every score that score_article returns is an integer in 0..100.     *)
C1_ScoreInRange ==
  HasReturned(last) => last.ret.score \in 0..100

(* a call whose unclamped sum lies outside 0..100 *)
C1_Witness ==
  /\ HasReturned(last)
  /\ PredicateSum(last.args) + corroboration_bonus(last.args.corroboration_sources) > 100

(* C2: the score is clamp(raw, 0, 100), raw being the sum of the configured
   weights of the predicates that match, each counted once, plus the
   corroboration bonus; trusted source and low-quality source both count
   when the publisher matches both tables.                                *)
C2_ScoreIsClampedSum ==
  HasReturned(last) =>
    last.ret.score =
      Clamped(PredicateSum(last.args)
                + corroboration_bonus(last.args.corroboration_sources))

(* a publisher that matches both source tables *)
C2_Witness ==
  /\ HasReturned(last)
  /\ {"trusted", "low_quality"} \subseteq Matched(last.args)
  /\ last.ret.score = 5

(* C3: reasons holds each label at most once, in the fixed order, and a
   label is there exactly when its predicate matched ("Corroboration": when
   more than one distinct trusted name corroborates).                     *)
C3_ReasonsInFixedOrder ==
  HasReturned(last) =>
    LET a == last.args
        present(e) == IF e[1] = "corroboration"
                        THEN Cardinality(TrustedNames(a.corroboration_sources)) > 1
                        ELSE Matches(e[1], a)
        expected == SelectSeq(LabelOrder, present)
    IN  last.ret.reasons = [i \in DOMAIN expected |-> expected[i][2]]

(* a call with text, source and corroboration labels at once *)
C3_Witness ==
  /\ HasReturned(last)
  /\ Len(last.ret.reasons) >= 4
  /\ last.ret.reasons[Len(last.ret.reasons)] = "Corroboration"
  /\ "Low-quality Source (penalized)" \in Range(last.ret.reasons)

(* C4: with trusted_count the number of distinct (by exact string value)
   non-empty trusted names of the list, the bonus is min(20, 5 *
   (trusted_count - 1)) and "Corroboration" is appended when trusted_count >
   1, and else the bonus is 0 and the label is absent; "Reuters" and
   "reuters" count as two.                                                *)
C4_CorroborationBonus ==
  HasReturned(last) =>
    LET n == Cardinality(TrustedNames(last.args.corroboration_sources))
        bonus == IF n > 1 THEN Min(20, 5 * (n - 1)) ELSE 0
    IN  /\ last.ret.score = Clamped(PredicateSum(last.args) + bonus)
        /\ ("Corroboration" \in Range(last.ret.reasons)) <=> (n > 1)

(* the list ["Reuters", "Reuters", "reuters"] earns the bonus of two names *)
C4_Witness ==
  /\ HasReturned(last)
  /\ last.args.corroboration_sources
       = List(<<Str(PubReuters), Str(PubReuters), Str(lower(PubReuters))>>)
  /\ PredicateSum(last.args) = 0
  /\ last.ret.score = 5

(* number of distinct trusted names corroborating a call *)
TrustedCorroborators(call) == Cardinality(TrustedNames(call.args.corroboration_sources))

(* C5 as the specification words it: with title, description and publisher
   fixed, going from 0 or 1 distinct trusted corroborating publishers to 2
   strictly increases the score (or leaves it unchanged when the bonus was
   already at max_corroboration_bonus), and going from 2 to 3 adds exactly
   5.                                                                     *)
C5_MonotoneAsWorded ==
  SameArticle =>
    /\ (TrustedCorroborators(first) <= 1 /\ TrustedCorroborators(last) = 2) =>
         \/ last.ret.score > first.ret.score
         \/ /\ corroboration_bonus(first.args.corroboration_sources)
                 = WEIGHTS.max_corroboration_bonus
            /\ last.ret.score = first.ret.score
    /\ (TrustedCorroborators(first) = 2 /\ TrustedCorroborators(last) = 3) =>
         last.ret.score = first.ret.score + 5

(* C5, amended: going from 0 or 1 distinct trusted corroborating publishers
   to 2 never lowers the score and strictly increases it when the sum raw of
   the article's other contributions has -5 < raw < 100; going from 2 to 3
   never lowers it and adds exactly 5 when -5 <= raw <= 90.  Outside these
   ranges the clamp to 0..100 absorbs the bonus.                          *)
C5_MonotoneWithinClamp ==
  SameArticle =>
    LET raw == PredicateSum(last.args)
    IN  /\ (TrustedCorroborators(first) <= 1 /\ TrustedCorroborators(last) = 2) =>
             /\ last.ret.score >= first.ret.score
             /\ (-5 < raw /\ raw < 100) => last.ret.score > first.ret.score
        /\ (TrustedCorroborators(first) = 2 /\ TrustedCorroborators(last) = 3) =>
             /\ last.ret.score >= first.ret.score
             /\ (-5 <= raw /\ raw <= 90) => last.ret.score = first.ret.score + 5

(* an article scored with no trusted corroborator and then with two, its
   other contributions summing to a value the clamp leaves alone *)
C5_Witness ==
  /\ SameArticle
  /\ TrustedCorroborators(first) = 0
  /\ TrustedCorroborators(last) = 2
  /\ PredicateSum(last.args) = 15
  /\ last.ret.score = 20

(* C6 as the specification words it: a second, different keyword of a
   category the text already matches leaves the score unchanged.          *)
C6_IdempotentAsWorded ==
  KeywordAdded => last.ret.score = first.ret.score

(* C6, amended: a second, different keyword of a category the text already
   matches leaves the score unchanged whenever the longer text matches the
   same predicates as the text before (the added keyword may bring a match
   of another predicate with it: "block deal" holds "deal", "split" holds
   "pli"); the category's own label stays in reasons exactly once.        *)
C6_IdempotentPerCategory ==
  KeywordAdded =>
    /\ Matched(last.args) = Matched(first.args) => last.ret.score = first.ret.score
    /\ \A c \in Categories :
         Matches(c, first.args) =>
           Cardinality({i \in DOMAIN last.ret.reasons :
                          last.ret.reasons[i] = LabelOf(c)}) = 1

(* "earnings" scored, then "earnings guidance" *)
C6_Witness ==
  /\ KeywordAdded
  /\ first.args.title = Str(KW_earnings[1])
  /\ last.args.title = Str(KW_earnings[1] \o <<" ">> \o KW_earnings[10])
  /\ last.ret.score = 30

(* the article matches all eight keyword categories and the trusted-source
   table and earns the maximum corroboration bonus *)
EveryPositive(a) ==
  /\ Categories \cup {"trusted"} \subseteq Matched(a)
  /\ corroboration_bonus(a.corroboration_sources) = WEIGHTS.max_corroboration_bonus

(* the article matches the two penalties and nothing else *)
OnlyPenalties(a) ==
  /\ Matched(a) = {"low_quality", "speculative"}
  /\ corroboration_bonus(a.corroboration_sources) = 0

(* C7: an article that triggers every positive category, trusted source and
   the maximum corroboration bonus scores exactly 100; one that triggers
   only the two penalties scores exactly 0.                               *)
C7_ClampedAtBothEnds ==
  HasReturned(last) =>
    /\ EveryPositive(last.args) => last.ret.score = 100
    /\ OnlyPenalties(last.args) => last.ret.score = 0

(* an article with every positive contribution: its sum is above 100 *)
C7_Witness ==
  /\ HasReturned(last)
  /\ EveryPositive(last.args)
  /\ PredicateSum(last.args) + WEIGHTS.max_corroboration_bonus > 100

Coerced(v) == IF v.t = "str" THEN v ELSE EmptyStr

(* C9: score_article never raises, and with None or a non-str value for
   title, description or publisher it returns what it returns with the
   empty string in that place.                                            *)
C9_NeverRaises ==
  last.made =>
    /\ last.ret.exc = ""
    /\ last.ret = score_article(Coerced(last.args.title), Coerced(last.args.desc),
                                Coerced(last.args.publisher),
                                last.args.corroboration_sources)

----------------------------------------------------------------------------
(* C14: scenario A (the Reliance headline by Reuters, corroborated by      *)
(* Reuters, Bloomberg and Economic Times) matches earnings/guidance,       *)
(* corporate action, numeric mention and trusted source and no other       *)
(* predicate, counts three trusted corroborators for a bonus of 10, and    *)
(* returns 85 with the five labels in the fixed order.                     *)
C14_ScenarioA ==
  (last.made /\ last.args = ScenarioA) =>
    /\ Matched(ScenarioA) = {"earnings", "corp_action", "numeric", "trusted"}
    /\ trusted_count(ScenarioA.corroboration_sources) = 3
    /\ corroboration_bonus(ScenarioA.corroboration_sources) = 10
    /\ last.ret = Returned(85, <<"Earnings/Guidance", "Corporate Action",
                                 "Numeric Mention", "Trusted Source",
                                 "Corroboration">>)

C14_Witness == HasReturned(last) /\ last.args = ScenarioA

(* C15: scenario B (the rumoured stake sale by some-random-blog, with no   *)
(* corroboration) matches the low-quality-source and the speculative       *)
(* penalties only, and returns 0 with exactly these two labels, the        *)
(* low-quality one first.                                                  *)
C15_ScenarioB ==
  (last.made /\ last.args.title = ScenarioB.title
             /\ last.args.publisher = ScenarioB.publisher
             /\ last.args.desc = ScenarioB.desc
             /\ ~Truthy(last.args.corroboration_sources)) =>
    /\ Matched(last.args) = {"low_quality", "speculative"}
    /\ PredicateSum(last.args) = -25
    /\ last.ret = Returned(0, <<"Low-quality Source (penalized)",
                                "Speculative Language (penalized)">>)

C15_Witness == HasReturned(last) /\ last.args = ScenarioB

----------------------------------------------------------------------------
(* What the specification says of the fetcher.                             *)

(* the maximal runs of word characters of s, from position i on, joined by
   single spaces *)
RECURSIVE JoinWordsFrom(_, _, _)
JoinWordsFrom(s, i, started) ==
  IF \A k \in i..Len(s) : s[k] \notin WordChars THEN <<>>
  ELSE LET start == CHOOSE j \in i..Len(s) :
                      /\ s[j] \in WordChars
                      /\ \A k \in i..(j - 1) : s[k] \notin WordChars
           end == CHOOSE j \in start..Len(s) :
                    /\ \A k \in start..j : s[k] \in WordChars
                    /\ (j = Len(s) \/ s[j + 1] \notin WordChars)
       IN  (IF started THEN <<" ">> ELSE <<>>) \o SubSeq(s, start, end)
             \o JoinWordsFrom(s, end + 1, TRUE)

(* s lowercased, every run of non-word characters collapsed to one space,
   trimmed *)
Normalized(s) == JoinWordsFrom(lower(s), 1, FALSE)

(* the title of an article, "" when it has none *)
TitleOf(art) == IF art.title.t = "str" THEN art.title.s ELSE <<>>

(* the dedup key as the claim words it *)
DedupKeyAsWorded(art) ==
  LET norm == Normalized(TitleOf(art))
      dump == json_dumps(art)
  IN  IF norm = <<>> THEN SubSeq(dump, 1, Min(120, Len(dump)))
      ELSE SubSeq(norm, 1, Min(200, Len(norm)))

(* the dedup keys of the articles of a list *)
DedupKeys(raw) == [i \in DOMAIN raw |-> DedupKeyAsWorded(raw[i])]

(* the positions of the first occurrence of each dedup key in a list with
   the keys given *)
FirstOccurrences(keys) ==
  {i \in DOMAIN keys : \A j \in 1..(i - 1) : keys[j] # keys[i]}

(* the articles of raw at the positions of P, in their original order *)
Subsequence(raw, P) ==
  [n \in 1..Cardinality(P) |->
     raw[CHOOSE i \in P : Cardinality({j \in P : j <= i}) = n]]

(* what the claim expects fetch_news to return for each list GNews returns:
   the first occurrences, in the original order *)
FirstOfEachKey ==
  [l \in RawLists |-> Subsequence(l, FirstOccurrences(DedupKeys(l)))]

(* the dedup keys of the articles of what is expected *)
KeysOfFirst == [l \in RawLists |-> DedupKeys(FirstOfEachKey[l])]

(* the upstream call failed, or a step of processing its result does: a
   title that is neither a str nor falsy has no strip() *)
UpstreamFails(u) ==
  \/ u.raises
  \/ /\ u.raw.t = "list"
     /\ \E i \in DOMAIN u.raw.s :
          u.raw.s[i].title.t = "int" /\ u.raw.s[i].title.s # <<"0">>

(* the records of results for stock number i *)
RecordsOf(i) == {j \in DOMAIN results : results[j].Stock = stocks[i]}

(* C16: fetch_news never raises to its caller: whenever the upstream call   *)
(* or a step of processing its result fails, the future of that stock holds *)
(* the empty list, not an exception, and fetch_all_news records the stock   *)
(* with Articles = [] and News Count = 0.                                   *)
C16_FetcherNeverRaises ==
  \A i \in DOMAIN futures :
    /\ futures[i].state # "pending" => ~futures[i].ret.exc
    /\ (futures[i].state # "pending" /\ UpstreamFails(futures[i].upstream)) =>
         futures[i].ret.value = <<>>
    /\ (futures[i].state = "yielded" /\ UpstreamFails(futures[i].upstream)) =>
         /\ RecordsOf(i) # {}
         /\ \A j \in RecordsOf(i) :
              results[j].Articles = <<>> /\ results[j].NewsCount = 0

C16_Witness ==
  /\ pc = "returned"
  /\ \E i \in DOMAIN futures : futures[i].upstream.raises
  /\ \E i \in DOMAIN futures :
       ~futures[i].upstream.raises /\ UpstreamFails(futures[i].upstream)
  /\ \A j \in DOMAIN raw_news_results : raw_news_results[j].NewsCount = 0

(* C18: fetch_all_news returns exactly one record per submitted stock, for  *)
(* every completion order and every pattern of failures: as many records as *)
(* stocks, each stock name exactly once, News Count = len(Articles).        *)
C18_OneRecordPerStock ==
  pc = "returned" =>
    /\ Len(raw_news_results) = Len(stocks)
    /\ \A i \in DOMAIN stocks :
         Cardinality({j \in DOMAIN raw_news_results :
                        raw_news_results[j].Stock = stocks[i]}) = 1
    /\ \A j \in DOMAIN raw_news_results :
         raw_news_results[j].NewsCount = Len(raw_news_results[j].Articles)

C18_Witness ==
  /\ pc = "returned"
  /\ Len(stocks) = MaxStocks
  /\ raw_news_results[1].Stock = stocks[Len(stocks)]
  /\ \E i \in DOMAIN futures : UpstreamFails(futures[i].upstream)
  /\ \E j \in DOMAIN raw_news_results : raw_news_results[j].NewsCount > 1

(* C19: what fetch_news returns is the subsequence of the raw list that     *)
(* keeps the first occurrence of each dedup key, in the original order, and *)
(* no two returned articles have the same dedup key.                        *)
C19_DedupByTitle ==
  \A i \in DOMAIN futures :
    (/\ futures[i].state # "pending"
     /\ futures[i].upstream.raw.t = "list"
     /\ ~UpstreamFails(futures[i].upstream)) =>
      LET raw == futures[i].upstream.raw.s
          ret == futures[i].ret.value
      IN  /\ ret = FirstOfEachKey[raw]
          /\ \A a, b \in DOMAIN ret :
               a # b => KeysOfFirst[raw][a] # KeysOfFirst[raw][b]

C19_Witness ==
  \E i \in DOMAIN futures :
    /\ futures[i].state = "yielded"
    /\ futures[i].upstream.raw = List(<<ArtLong1, ArtLong2, ArtLongDesc1,
                                        ArtLongDesc2, ArtNoTitle>>)
    /\ futures[i].ret.value = <<ArtLong1, ArtLongDesc1, ArtNoTitle>>
    /\ \E k \in DOMAIN futures :
         /\ futures[k].state # "pending"
         /\ futures[k].ret.value = <<ArtReuters, ArtSymbols, ArtSymbols2>>

----------------------------------------------------------------------------
(* What the specification says of the headline index and of the News tab.  *)

(* the corroboration key as the claim words it *)
HeadlineKeyAsWorded(stock, title) ==
  LET norm == Normalized(title)
  IN  IF norm = <<>>
        THEN lower(stock) \o <<"_">> \o SubSeq(title, 1, Min(40, Len(title)))
        ELSE SubSeq(norm, 1, Min(120, Len(norm)))

(* the key of the article at position p of a batch *)
KeyAt(batch, p) ==
  HeadlineKeyAsWorded(batch[p[1]].Stock, TitleOf(batch[p[1]].Articles[p[2]]))

(* the index holds an entry for every article of the batch: each key of the
   batch is indexed with as many names as the batch has articles of that key *)
IndexCovers(batch) ==
  LET keys == [p \in Positions(batch) |-> KeyAt(batch, p)]
  IN  \A p \in Positions(batch) :
        /\ keys[p] \in DOMAIN headline_map
        /\ Len(headline_map[keys[p]])
             >= Cardinality({q \in Positions(batch) : keys[q] = keys[p]})

(* C11: two-phase batch protocol: whenever the News tab loop or the         *)
(* Trending tab loop is scoring, the headline index has been built from     *)
(* all the articles of the batch that loop scores.                          *)
C11_TwoPhaseBatch ==
  /\ pc = "news" => IndexCovers(news_results)
  /\ pc = "trending" => IndexCovers(all_results)

(* the label the specification gives a score under a threshold *)
LabelAsWorded(score, limit) ==
  IF score >= 70 THEN "High"
  ELSE IF limit <= score /\ score < 70 THEN "Medium"
  ELSE "Low"

(* the rows rendered so far *)
Rows == UNION {Range(shown[n].rows) : n \in DOMAIN shown}

(* C12 as worded: a rendered article whose score equals the threshold is    *)
(* labelled "Medium", and an article whose score equals the threshold is    *)
(* in the visible list when only_impact is on.                              *)
C12_BoundaryAsWorded ==
  /\ \A r \in Rows : r.score = threshold => r.priority_label = "Medium"
  /\ \A n \in DOMAIN shown :
       \A i \in DOMAIN shown[n].scored_list :
         (only_impact /\ shown[n].scored_list[i].score = threshold) =>
           shown[n].scored_list[i] \in Range(shown[n].visible)

(* C12: a rendered article whose score equals the threshold is labelled     *)
(* "Medium" when the threshold is below 70 and "High" when it is 70 or      *)
(* more, never "Low"; an article whose score equals the threshold is in the *)
(* visible list when only_impact is on.                                     *)
C12_BoundaryNeverLow ==
  /\ \A r \in Rows :
       r.score = threshold =>
         /\ r.priority_label # "Low"
         /\ r.priority_label = IF threshold < 70 THEN "Medium" ELSE "High"
  /\ \A n \in DOMAIN shown :
       \A i \in DOMAIN shown[n].scored_list :
         (only_impact /\ shown[n].scored_list[i].score = threshold) =>
           shown[n].scored_list[i] \in Range(shown[n].visible)

C12_Witness ==
  /\ only_impact
  /\ threshold = 40
  /\ \E r \in Rows : r.score = threshold /\ r.priority_label = "Medium"

(* C13: every rendered article is labelled "High" if score >= 70, "Medium"  *)
(* if threshold <= score < 70 and "Low" otherwise; with only_impact on an   *)
(* article is visible exactly when score >= threshold, with only_impact off *)
(* every article is visible.                                                *)
C13_PriorityBadge ==
  /\ \A r \in Rows : r.priority_label = LabelAsWorded(r.score, threshold)
  /\ \A n \in DOMAIN shown :
       LET scored == shown[n].scored_list
           vis == shown[n].visible
           kept == {i \in DOMAIN scored : ~only_impact \/ scored[i].score >= threshold}
       IN  /\ vis = Subsequence(scored, kept)
           /\ ~only_impact => vis = scored
           /\ shown[n].rows =
                [k \in 1..Min(10, Len(vis)) |->
                   [title |-> vis[k].title, url |-> vis[k].url,
                    score |-> vis[k].score,
                    priority_label |-> LabelAsWorded(vis[k].score, threshold)]]

C13_Witness ==
  /\ \E n \in DOMAIN shown :
       /\ ~only_impact
       /\ \A l \in {"High", "Medium", "Low"} :
            \E k \in DOMAIN shown[n].rows : shown[n].rows[k].priority_label = l
       /\ \E i \in DOMAIN shown[n].scored_list :
            shown[n].scored_list[i].score = threshold

(* C17: the corroboration key is the title lowercased, with every run of    *)
(* non-word characters collapsed to one space, trimmed and cut to 120       *)
(* characters, or lowercase(stock) + "_" + the first 40 characters of the   *)
(* title when that is empty; the key computed when the index is built and   *)
(* the keys computed in the News tab and in the Trending tab are the same   *)
(* function of (stock, title).                                              *)
C17_HeadlineKey ==
  lookup.site # "" =>
    /\ lookup.key = HeadlineKeyAsWorded(lookup.stock, lookup.title)
    /\ headline_key(lookup.stock, Str(lookup.title)) = lookup.key
    /\ news_key(lookup.stock, Str(lookup.title)) = lookup.key
    /\ trending_key(lookup.stock, Str(lookup.title)) = lookup.key

C17_Witness ==
  /\ lookup.site = "trending"
  /\ Len(lookup.title) > 120
  /\ Len(lookup.key) = 120
  /\ Len(lookup.publishers) = 2
  /\ lower(fo_stocks[1]) \o <<"_", "!", "!", "!">> \in DOMAIN headline_map
  /\ lower(fo_stocks[1]) \o <<"_">> \in DOMAIN headline_map

(* C20: in the News tab the corroboration list passed to score_article      *)
(* contains the article's own publisher name, which is not empty, so the    *)
(* list is never empty.                                                     *)
C20_OwnPublisherListed ==
  lookup.site = "news" =>
    /\ last.args.publisher.t = "str"
    /\ last.args.publisher.s # <<>>
    /\ last.args.corroboration_sources.t = "list"
    /\ last.args.corroboration_sources.s # <<>>
    /\ last.args.publisher \in Range(last.args.corroboration_sources.s)

C20_Witness ==
  /\ lookup.site = "news"
  /\ HasReturned(last)
  /\ Len(last.args.corroboration_sources.s) = 2
  /\ last.args.publisher = Str(PubReuters)
  /\ \E n \in DOMAIN raw_news_results :
       \E j \in DOMAIN raw_news_results[n].Articles :
         ~has_publisher(raw_news_results[n].Articles[j])

----------------------------------------------------------------------------
(* The watchlist across the runs of a session.                             *)

(* the urls of the entries of a watchlist *)
SavedUrls(saved) == {saved[j].url : j \in DOMAIN saved}

(* no two entries of the watchlist have the same url *)
UrlsDistinct(saved) ==
  \A j, k \in DOMAIN saved : saved[j].url = saved[k].url => j = k

(* the rows of the stock just rendered whose button reports the click *)
ClickedRows(rendered) ==
  { rendered.rows[i] : i \in { k \in DOMAIN rendered.rows :
      clicked # NoClick
      /\ clicked = save_key(rendered.Stock, k - 1, rendered.rows[k].url) } }

(* what a step does to the watchlist: nothing, unless it renders a stock
   with the clicked row, and then one entry with the url of that row is
   appended if no entry had that url *)
WatchStep ==
  LET rendered == shown'[Len(shown')]
      hit == IF Len(shown') = Len(shown) + 1 THEN ClickedRows(rendered) ELSE {}
  IN  /\ Cardinality(hit) <= 1
      /\ hit = {} => saved_articles' = saved_articles
      /\ \A row \in hit :
           IF row.url \in SavedUrls(saved_articles)
             THEN saved_articles' = saved_articles
             ELSE /\ Len(saved_articles') = Len(saved_articles) + 1
                  /\ SubSeq(saved_articles', 1, Len(saved_articles)) = saved_articles
                  /\ saved_articles'[Len(saved_articles')].url = row.url
      /\ UrlsDistinct(saved_articles')

(* C21: after any sequence of "Save / Watch" clicks across reruns no two    *)
(* entries of saved_articles have the same url; a click on an article whose *)
(* url is already saved leaves the watchlist unchanged, a click on an       *)
(* unsaved url appends exactly one entry; articles without a url share the  *)
(* url "#", so at most one of them is ever saved.                           *)
C21_WatchlistUrlsUnique == [][WatchStep]_vars

(* the click on "Q2 JV CEO ... 5 mn", which has no url, was handled while
   "Q2 merger", which has none either, was on the watchlist *)
C21_Witness ==
  /\ pc = "done"
  /\ clicked # NoClick
  /\ Len(saved_articles) = 1
  /\ saved_articles[1].url = <<"#">>
  /\ saved_articles[1].title # TitleEveryCategory
  /\ \E n \in DOMAIN shown :
       \E row \in ClickedRows(shown[n]) :
         row.url = <<"#">> /\ row.title = TitleEveryCategory

----------------------------------------------------------------------------
(* The summary line of the News tab.                                       *)

(* the loop over news_results is over: the summary line is rendered *)
SummaryRendered == pc \in {"trending_fetch", "trending", "done"}

(* the articles the expanders of the News tab report as scanned *)
RECURSIVE ScannedIn(_)
ScannedIn(rendered) ==
  IF rendered = <<>> THEN 0
  ELSE Len(Head(rendered).scored_list) + ScannedIn(Tail(rendered))

(* C22: in the summary of the News tab, after all stocks are processed,     *)
(* displayed_total + filtered_out_total is the number of scanned articles   *)
(* over all stocks, for every threshold and both values of only_impact, and *)
(* filtered_out_total is 0 when only_impact is off.                         *)
C22_SummaryAddsUp ==
  SummaryRendered =>
    LET line == summary(totals, news_results)
    IN  /\ line.displayed + line.filtered_out = line.scanned
        /\ line.scanned = ScannedIn(shown)
        /\ ~only_impact => line.filtered_out = 0

(* the filter is on at threshold 70 over two stocks with articles: some
   are hidden, others are shown *)
C22_Witness ==
  /\ SummaryRendered
  /\ only_impact
  /\ threshold = 70
  /\ summary(totals, news_results).scanned >= 5
  /\ totals.filtered_out_total >= 2
  /\ totals.displayed_total >= 2
  /\ Cardinality({n \in DOMAIN shown : shown[n].scored_list # <<>>}) >= 2

====
